---- MODULE Spec2Model ----
(***************************************************************************)
(* Model of the mcphy query engine: QueryMatcher (semantic model call with *)
(* deterministic keyword fallback) embedded in MCPServer, whose            *)
(* /api/update-spec route replaces the manifest and the QueryMatcher, and  *)
(* ManifestGenerator, which builds the manifest from an API specification. *)
(* Strings are TLA+ strings; the i-th character of s is SubSeq(s, i, i).   *)
(***************************************************************************)
EXTENDS Integers, Sequences, FiniteSets, TLC

(***************************************************************************)
(* Bounds of the model.                                                    *)
(***************************************************************************)
\* /mcp/query requests and /api/update-spec requests of the server
MaxRequests == 2
MaxUpdates == 2
\* calls of the fallback matcher run in sequence on one catalog
MaxCalls == 3

(***************************************************************************)
(* Characters and the JavaScript string primitives the matcher uses.       *)
(***************************************************************************)
LowerChars == {"a","b","c","d","e","f","g","h","i","j","k","l","m",
               "n","o","p","q","r","s","t","u","v","w","x","y","z"}

UpperChars == {"A","B","C","D","E","F","G","H","I","J","K","L","M",
               "N","O","P","Q","R","S","T","U","V","W","X","Y","Z"}

DigitChars == {"0","1","2","3","4","5","6","7","8","9"}

\* \w of a JavaScript regular expression
WordChars == LowerChars \cup UpperChars \cup DigitChars \cup {"_"}

\* \s of a JavaScript regular expression (the characters queries contain)
SpaceChars == {" ", "\t", "\n"}

CharAt(s, i) == SubSeq(s, i, i)

LowerOf ==
  "A" :> "a" @@ "B" :> "b" @@ "C" :> "c" @@ "D" :> "d" @@ "E" :> "e" @@
  "F" :> "f" @@ "G" :> "g" @@ "H" :> "h" @@ "I" :> "i" @@ "J" :> "j" @@
  "K" :> "k" @@ "L" :> "l" @@ "M" :> "m" @@ "N" :> "n" @@ "O" :> "o" @@
  "P" :> "p" @@ "Q" :> "q" @@ "R" :> "r" @@ "S" :> "s" @@ "T" :> "t" @@
  "U" :> "u" @@ "V" :> "v" @@ "W" :> "w" @@ "X" :> "x" @@ "Y" :> "y" @@
  "Z" :> "z"

LowerChar(c) == IF c \in UpperChars THEN LowerOf[c] ELSE c

RECURSIVE ToLowerCase(_)
ToLowerCase(s) ==
  IF Len(s) = 0 THEN ""
  ELSE IF Len(s) = 1 THEN LowerChar(s)
  ELSE ToLowerCase(SubSeq(s, 1, Len(s) \div 2))
         \o ToLowerCase(SubSeq(s, (Len(s) \div 2) + 1, Len(s)))

\* String.prototype.startsWith at a position
StartsWithAt(s, k, i) ==
  /\ i >= 1
  /\ i + Len(k) - 1 <= Len(s)
  /\ SubSeq(s, i, i + Len(k) - 1) = k

\* String.prototype.includes
Includes(s, k) == \E i \in 1..(Len(s) + 1) : StartsWithAt(s, k, i)

\* Length of the longest run of characters of class cls starting at i
RECURSIVE RunLen(_, _, _)
RunLen(s, i, cls) ==
  IF i <= Len(s) /\ CharAt(s, i) \in cls THEN 1 + RunLen(s, i + 1, cls)
  ELSE 0

\* Length of the longest run of characters outside class cls starting at i
RECURSIVE RunLenNot(_, _, _)
RunLenNot(s, i, cls) ==
  IF i <= Len(s) /\ CharAt(s, i) \notin cls THEN 1 + RunLenNot(s, i + 1, cls)
  ELSE 0

\* String.prototype.split(sep) for a one-character separator
RECURSIVE SplitFrom(_, _, _, _)
SplitFrom(s, sep, i, cur) ==
  IF i > Len(s) THEN <<cur>>
  ELSE IF CharAt(s, i) = sep THEN <<cur>> \o SplitFrom(s, sep, i + 1, "")
  ELSE SplitFrom(s, sep, i + 1, cur \o CharAt(s, i))

Split(s, sep) == SplitFrom(s, sep, 1, "")

Range(seq) == {seq[i] : i \in 1..Len(seq)}

\* String.prototype.split(/\s+/)
RECURSIVE SplitWsFrom(_, _, _)
SplitWsFrom(s, i, cur) ==
  IF i > Len(s) THEN <<cur>>
  ELSE IF CharAt(s, i) \in SpaceChars
       THEN <<cur>> \o SplitWsFrom(s, i + RunLen(s, i, SpaceChars), "")
       ELSE SplitWsFrom(s, i + 1, cur \o CharAt(s, i))

SplitWs(s) == SplitWsFrom(s, 1, "")

\* obj[key] = value on a JavaScript object used as a map
Put(obj, key, value) ==
  [k \in (DOMAIN obj) \cup {key} |-> IF k = key THEN value ELSE obj[k]]

\* Object.assign(target, source)
Assign(target, source) ==
  [k \in (DOMAIN target) \cup (DOMAIN source) |->
     IF k \in DOMAIN source THEN source[k] ELSE target[k]]

EmptyObject == <<>>

(***************************************************************************)
(* Values held by params: a JavaScript string, a number, or NaN.           *)
(***************************************************************************)
StrVal(s) == [kind |-> "string", str |-> s, num |-> 0]
NumVal(n) == [kind |-> "number", str |-> "", num |-> n]
NaNVal == [kind |-> "NaN", str |-> "", num |-> 0]

DigitOf ==
  "0" :> 0 @@ "1" :> 1 @@ "2" :> 2 @@ "3" :> 3 @@ "4" :> 4 @@
  "5" :> 5 @@ "6" :> 6 @@ "7" :> 7 @@ "8" :> 8 @@ "9" :> 9

RECURSIVE DigitsValue(_, _)
DigitsValue(s, acc) ==
  IF Len(s) = 0 THEN acc
  ELSE DigitsValue(Tail(s), 10 * acc + DigitOf[Head(s)])

\* parseInt(s, 10): optional sign, then the leading run of digits
ParseInt(s) ==
  LET neg == Len(s) > 0 /\ Head(s) = "-"
      signed == Len(s) > 0 /\ Head(s) \in {"-", "+"}
      from == IF signed THEN 2 ELSE 1
      n == RunLen(s, from, DigitChars)
  IN IF n = 0 THEN NaNVal
     ELSE LET v == DigitsValue(SubSeq(s, from, from + n - 1), 0)
          IN NumVal(IF neg THEN 0 - v ELSE v)

(***************************************************************************)
(* The catalog (MCPManifest) and its endpoints.                            *)
(***************************************************************************)
\* location "" stands for a parameter without location
MCPParameter(name, type, required, location) ==
  [name |-> name, type |-> type, required |-> required,
   location |-> location]

NoRequestBody == [present |-> FALSE, properties |-> EmptyObject,
                  requiredFields |-> <<>>]

MCPRequestBody(properties, requiredFields) ==
  [present |-> TRUE, properties |-> properties,
   requiredFields |-> requiredFields]

MCPEndpoint(path, method, description, parameters, requestBody) ==
  [path |-> path, method |-> method, description |-> description,
   parameters |-> parameters, requestBody |-> requestBody]

MCPManifest(name, endpoints) == [name |-> name, endpoints |-> endpoints]

MutatingMethods == {"POST", "PUT", "PATCH"}

(***************************************************************************)
(* matchWithFallback, step 1: the HTTP method guessed from the query.      *)
(***************************************************************************)
methodKeywords ==
  << [method |-> "GET",
      keywords |-> <<"get", "fetch", "retrieve", "list", "show", "find", "search">>],
     [method |-> "POST",
      keywords |-> <<"create", "add", "post", "new", "insert">>],
     [method |-> "PUT",
      keywords |-> <<"update", "modify", "edit", "change", "replace">>],
     [method |-> "DELETE",
      keywords |-> <<"delete", "remove", "destroy">>],
     [method |-> "PATCH",
      keywords |-> <<"patch", "partial update">>] >>

RECURSIVE MatchedMethodFrom(_, _)
MatchedMethodFrom(queryLower, i) ==
  IF i > Len(methodKeywords) THEN "GET"
  ELSE IF \E k \in Range(methodKeywords[i].keywords) : Includes(queryLower, k)
       THEN methodKeywords[i].method
       ELSE MatchedMethodFrom(queryLower, i + 1)

\* a guess that keeps the last keyword set with a keyword in the query
MatchedMethodLast(queryLower) ==
  LET hits == {i \in 1..Len(methodKeywords) :
                 \E k \in Range(methodKeywords[i].keywords) :
                   Includes(queryLower, k)}
  IN IF hits = {} THEN "GET"
     ELSE methodKeywords[CHOOSE i \in hits : \A j \in hits : j <= i].method

MatchedMethod(queryLower) == MatchedMethodFrom(queryLower, 1)

(***************************************************************************)
(* matchWithFallback, step 2: scoring and the best match.                  *)
(***************************************************************************)
IsPathKeyword(part) == part # "" /\ ~StartsWithAt(part, "{", 1)

PathKeywords(path) == SelectSeq(Split(path, "/"), IsPathKeyword)

\* a scoring that ignores the method
MethodScoreIgnored(endpoint, matchedMethod) == 0

MethodScore(endpoint, matchedMethod) ==
  IF endpoint.method = matchedMethod THEN 5 ELSE 0

PathScore(endpoint, queryLower) ==
  LET kws == PathKeywords(endpoint.path)
  IN 3 * Cardinality({i \in 1..Len(kws) :
                        Includes(queryLower, ToLowerCase(kws[i]))})

DescriptionScore(endpoint, queryLower) ==
  IF endpoint.description = "" THEN 0
  ELSE LET descWords == SplitWs(ToLowerCase(endpoint.description))
       IN Cardinality({i \in 1..Len(descWords) :
                         /\ Includes(queryLower, descWords[i])
                         /\ Len(descWords[i]) > 3})

EndpointScore(endpoint, queryLower, matchedMethod) ==
  MethodScore(endpoint, matchedMethod)
    + PathScore(endpoint, queryLower)
    + DescriptionScore(endpoint, queryLower)

\* The scoring loop: best is the index of bestMatch, 0 standing for null
RECURSIVE BestMatchFrom(_, _, _, _, _, _)
BestMatchFrom(endpoints, queryLower, matchedMethod, i, best, maxScore) ==
  IF i > Len(endpoints) THEN [best |-> best, maxScore |-> maxScore]
  ELSE LET score == EndpointScore(endpoints[i], queryLower, matchedMethod)
       IN IF score > maxScore
          THEN BestMatchFrom(endpoints, queryLower, matchedMethod, i + 1, i, score)
          ELSE BestMatchFrom(endpoints, queryLower, matchedMethod, i + 1, best, maxScore)

\* a loop that replaces bestMatch on score >= maxScore: the last endpoint
\* of maximal score wins, and an endpoint of score zero is a match
BestMatchLast(endpoints, queryLower, matchedMethod) ==
  LET Score(i) == EndpointScore(endpoints[i], queryLower, matchedMethod)
      Top(idx) == {i \in idx : \A j \in idx : Score(j) <= Score(i)}
      Pick(last) == [best |-> last, maxScore |-> Score(last)]
      Last(top) == IF top = {} THEN [best |-> 0, maxScore |-> 0]
                   ELSE Pick(CHOOSE i \in top : \A j \in top : j <= i)
  IN Last(Top(1..Len(endpoints)))

BestMatch(endpoints, queryLower, matchedMethod) ==
  BestMatchFrom(endpoints, queryLower, matchedMethod, 1, 0, 0)

(***************************************************************************)
(* Regular expressions of the matcher.  A match is reported as             *)
(* [found, key, value, last]: last is the index of its last character.     *)
(***************************************************************************)
NoMatch == [found |-> FALSE, key |-> "", value |-> "", last |-> 0]

Found(key, value, last) ==
  [found |-> TRUE, key |-> key, value |-> value, last |-> last]

Min(S) == CHOOSE m \in S : \A n \in S : m <= n

Max(S) == CHOOSE m \in S : \A n \in S : m >= n

QuoteChars == {"\"", "'"}

\* [:\s]
SepChars == {":"} \cup SpaceChars

IsDateAt(s, i) ==
  /\ i + 9 <= Len(s)
  /\ \A d \in {0, 1, 2, 3, 5, 6, 8, 9} : CharAt(s, i + d) \in DigitChars
  /\ CharAt(s, i + 4) = "-"
  /\ CharAt(s, i + 7) = "-"

\* Length matched by a capture group at position i, 0 when it does not match
CaptureLen(s, i, group) ==
  CASE group = "[\\w-]+" -> RunLen(s, i, WordChars \cup {"-"})
    [] group = "[^,\\s]+" -> RunLenNot(s, i, SpaceChars \cup {","})
    [] group = "[^\\s]+" -> RunLenNot(s, i, SpaceChars)
    [] group = "[^,]+" -> RunLenNot(s, i, {","})
    [] group = "[^\\s]+@[^\\s]+" ->
         LET n == RunLenNot(s, i, SpaceChars)
         IN IF \E p \in 2..(n - 1) : CharAt(s, i + p - 1) = "@" THEN n ELSE 0
    [] group = "\\d{4}-\\d{2}-\\d{2}" -> IF IsDateAt(s, i) THEN 10 ELSE 0
    [] group = "\\d{4}" -> IF RunLen(s, i, DigitChars) >= 4 THEN 4 ELSE 0

\* [:\s]+(group) at position i: the separator run is greedy and backtracks
SepThenCapture(s, i, group) ==
  LET Len_(k) == CaptureLen(s, i + k, group)
      Capture(k, n) == Found("", SubSeq(s, i + k, i + k + n - 1), i + k + n - 1)
      Longest(ks) == IF ks = {} THEN NoMatch
                     ELSE Capture(Max(ks), Len_(Max(ks)))
  IN Longest({k \in 1..RunLen(s, i, SepChars) : Len_(k) > 0})

\* query.match(/(?:w1|w2|...)[:\s]+(group)/i): the leftmost match
MatchWordsThenCapture(s, words, group) ==
  LET At(lower, i, w) ==
        IF StartsWithAt(lower, words[w], i)
        THEN SepThenCapture(s, i + Len(words[w]), group)
        ELSE NoMatch
      \* <<start, alternative, match>> for every start and alternative
      Candidates(lower) ==
        {<<p[1], p[2], At(lower, p[1], p[2])>> :
           p \in (1..Len(s)) \X (1..Len(words))}
      Leftmost(found) ==
        IF found = {} THEN NoMatch
        ELSE (CHOOSE c \in found : \A d \in found :
                c[1] < d[1] \/ (c[1] = d[1] /\ c[2] <= d[2]))[3]
  IN Leftmost({c \in Candidates(ToLowerCase(s)) : c[3].found})

\* query.match(/(\d{4}-\d{2}-\d{2})/)
MatchDate(s) ==
  LET First(starts) ==
        IF starts = {} THEN NoMatch
        ELSE Found("", SubSeq(s, Min(starts), Min(starts) + 9), Min(starts) + 9)
  IN First({i \in 1..Len(s) : IsDateAt(s, i)})

\* new RegExp(source) throws a SyntaxError on unbalanced parentheses and on
\* a leading quantifier; the parameter names of the model hold no other
\* metacharacter, so every other source is a literal
RECURSIVE ParenBalanced(_, _)
ParenBalanced(source, depth) ==
  IF Len(source) = 0 THEN depth = 0
  ELSE IF Head(source) = "(" THEN ParenBalanced(Tail(source), depth + 1)
  ELSE IF Head(source) = ")"
       THEN depth > 0 /\ ParenBalanced(Tail(source), depth - 1)
  ELSE ParenBalanced(Tail(source), depth)

RegExpSyntaxError(source) ==
  \/ ~ParenBalanced(source, 0)
  \/ Len(source) > 0 /\ Head(source) \in {"*", "+", "?"}

\* (\w+)\s*=\s* at position i: the key and the index after the separator
KeyEqualsAt(s, i) ==
  LET Equals(w, eq) ==
        IF w > 0 /\ eq <= Len(s) /\ CharAt(s, eq) = "="
        THEN Found(SubSeq(s, i, i + w - 1), "", eq + RunLen(s, eq + 1, SpaceChars))
        ELSE NoMatch
      Key(w) == Equals(w, i + w + RunLen(s, i + w, SpaceChars))
  IN Key(RunLen(s, i, WordChars))

\* /(\w+)\s*=\s*["']([^"']+)["']/ at position i
structuredPatternAt(s, i) ==
  LET Quoted(ke, open, n) ==
        IF /\ ke.found
           /\ open <= Len(s) /\ CharAt(s, open) \in QuoteChars
           /\ n > 0
           /\ open + 1 + n <= Len(s) /\ CharAt(s, open + 1 + n) \in QuoteChars
        THEN Found(ke.key, SubSeq(s, open + 1, open + n), open + 1 + n)
        ELSE NoMatch
      AfterKey(ke) == Quoted(ke, ke.last + 1, RunLenNot(s, ke.last + 2, QuoteChars))
  IN AfterKey(KeyEqualsAt(s, i))

\* /(\w+)\s*=\s*([^\s,]+)/ at position i
unquotedPatternAt(s, i) ==
  LET Value(ke, n) ==
        IF ke.found /\ n > 0
        THEN Found(ke.key, SubSeq(s, ke.last + 1, ke.last + n), ke.last + n)
        ELSE NoMatch
      AfterKey(ke) == Value(ke, RunLenNot(s, ke.last + 1, SpaceChars \cup {","}))
  IN AfterKey(KeyEqualsAt(s, i))

\* pattern.exec(query) of a global pattern whose lastIndex is from - 1
ExecFrom(s, from, quoted) ==
  LET PatternAt(i) == IF quoted THEN structuredPatternAt(s, i)
                      ELSE unquotedPatternAt(s, i)
      Leftmost(found) ==
        IF found = {} THEN NoMatch
        ELSE (CHOOSE c \in found : \A d \in found : c[1] <= d[1])[2]
  IN Leftmost({c \in {<<i, PatternAt(i)>> : i \in from..Len(s)} : c[2].found})

(***************************************************************************)
(* Optional values: undefined, or a present value.                         *)
(***************************************************************************)
Undefined == [present |-> FALSE]

Some(v) == [present |-> TRUE, value |-> v]

\* Array.prototype.join
RECURSIVE Join(_, _)
Join(seq, sep) ==
  IF Len(seq) = 0 THEN ""
  ELSE IF Len(seq) = 1 THEN seq[1]
  ELSE seq[1] \o sep \o Join(Tail(seq), sep)

DigitString == <<"0", "1", "2", "3", "4", "5", "6", "7", "8", "9">>

\* String(n) for a natural number
RECURSIVE NumToString(_)
NumToString(n) ==
  IF n < 10 THEN DigitString[n + 1]
  ELSE NumToString(n \div 10) \o DigitString[(n % 10) + 1]

(***************************************************************************)
(* extractParametersFromQuery.  endpoint is Undefined for null.            *)
(***************************************************************************)
ParamPatternSource(name) == name \o "[:\\s]+([\\w-]+)"

\* One iteration of the loop over endpoint.parameters
ExtractOneParameter(query, param, params) ==
  LET Named(match) ==
        IF match.found
        THEN Put(params, param.name,
                 IF param.type = "integer" THEN ParseInt(match.value)
                 ELSE StrVal(match.value))
        ELSE params
      Dated(named, dateMatch) ==
        IF param.type = "string" /\ Includes(param.name, "date") /\ dateMatch.found
        THEN Put(named, param.name, StrVal(dateMatch.value))
        ELSE named
  IN Dated(Named(MatchWordsThenCapture(query, <<ToLowerCase(param.name)>>,
                                       "[\\w-]+")),
           MatchDate(query))

RECURSIVE ExtractParametersFrom(_, _, _, _)
ExtractParametersFrom(query, parameters, i, params) ==
  IF i > Len(parameters) THEN [threw |-> FALSE, params |-> params]
  ELSE IF RegExpSyntaxError(ParamPatternSource(parameters[i].name))
       THEN [threw |-> TRUE, params |-> params]
       ELSE ExtractParametersFrom(query, parameters, i + 1,
              ExtractOneParameter(query, parameters[i], params))

extractParametersFromQuery(query, endpoint) ==
  IF ~endpoint.present THEN [threw |-> FALSE, params |-> EmptyObject]
  ELSE ExtractParametersFrom(query, endpoint.value.parameters, 1, EmptyObject)

(***************************************************************************)
(* extractRequestBodyFields                                                *)
(***************************************************************************)
\* The while loop over structuredPattern.exec(query)
RECURSIVE StructuredLoop(_, _, _)
StructuredLoop(query, from, bodyFields) ==
  LET Iterate(match) ==
        IF ~match.found THEN bodyFields
        ELSE StructuredLoop(query, match.last + 1,
                            Put(bodyFields, match.key, StrVal(match.value)))
  IN Iterate(ExecFrom(query, from, TRUE))

\* The while loop over unquotedPattern.exec(query)
RECURSIVE UnquotedLoop(_, _, _)
UnquotedLoop(query, from, bodyFields) ==
  LET Iterate(match) ==
        IF ~match.found THEN bodyFields
        ELSE UnquotedLoop(query, match.last + 1,
                          IF match.key \in DOMAIN bodyFields THEN bodyFields
                          ELSE Put(bodyFields, match.key, StrVal(match.value)))
  IN Iterate(ExecFrom(query, from, FALSE))

\* The natural-language pattern table
patterns ==
  << [words |-> <<"name", "customer">>, group |-> "[^,\\s]+", field |-> "customer_name"],
     [words |-> <<"email">>, group |-> "[^\\s]+@[^\\s]+", field |-> "customer_email"],
     [words |-> <<"phone">>, group |-> "[^\\s]+", field |-> "customer_phone"],
     [words |-> <<"garage", "shop">>, group |-> "[^,\\s]+", field |-> "garage_name"],
     [words |-> <<"service", "type">>, group |-> "[^,\\s]+", field |-> "service_type"],
     [words |-> <<"date">>, group |-> "\\d{4}-\\d{2}-\\d{2}", field |-> "appointment_date"],
     [words |-> <<"time", "slot">>, group |-> "[^\\s]+", field |-> "appointment_time_slot"],
     [words |-> <<"car", "vehicle">>, group |-> "[^,\\s]+", field |-> "car_make"],
     [words |-> <<"model">>, group |-> "[^,\\s]+", field |-> "car_model"],
     [words |-> <<"year">>, group |-> "\\d{4}", field |-> "car_year"],
     [words |-> <<"notes", "note">>, group |-> "[^,]+", field |-> "notes"] >>

RECURSIVE PatternLoop(_, _, _)
PatternLoop(query, i, bodyFields) ==
  IF i > Len(patterns) THEN bodyFields
  ELSE LET Iterate(pattern, match) ==
             PatternLoop(query, i + 1,
                         IF match.found
                         THEN Put(bodyFields, pattern.field, StrVal(match.value))
                         ELSE bodyFields)
           Try(pattern) ==
             Iterate(pattern,
                     MatchWordsThenCapture(query, pattern.words, pattern.group))
       IN Try(patterns[i])

\* an extraction that applies the natural-language patterns in every case
extractRequestBodyFieldsAlways(query, endpoint) ==
  PatternLoop(query, 1,
              UnquotedLoop(query, 1, StructuredLoop(query, 1, EmptyObject)))

extractRequestBodyFields(query, endpoint) ==
  LET NaturalLanguage(bodyFields) ==
        IF DOMAIN bodyFields = {} THEN PatternLoop(query, 1, bodyFields)
        ELSE bodyFields
  IN NaturalLanguage(UnquotedLoop(query, 1, StructuredLoop(query, 1, EmptyObject)))

(***************************************************************************)
(* Missing-information analysis.                                           *)
(***************************************************************************)
FindParameter(endpoint, paramName) ==
  LET idx == {i \in 1..Len(endpoint.parameters) :
                endpoint.parameters[i].name = paramName}
  IN IF idx = {} THEN Undefined ELSE Some(endpoint.parameters[Min(idx)])

ParameterSuggestion(paramName, param) ==
  LET lower == ToLowerCase(paramName)
  IN IF Includes(lower, "id")
     THEN "Please provide a " \o paramName \o " (e.g., \"with ID 123\")"
     ELSE IF Includes(lower, "email")
     THEN "Please provide an email address (e.g., \"for user@example.com\")"
     ELSE IF Includes(lower, "name")
     THEN "Please provide a name (e.g., \"for John Doe\")"
     ELSE IF Includes(lower, "date")
     THEN "Please provide a date (e.g., \"for 2025-01-15\")"
     ELSE IF param.type = "integer"
     THEN "Please provide a number for " \o paramName \o " (e.g., \"limit 10\")"
     ELSE "Please provide a value for " \o paramName

RECURSIVE generateParameterSuggestions(_, _)
generateParameterSuggestions(missingParams, endpoint) ==
  IF Len(missingParams) = 0 THEN <<>>
  ELSE LET param == FindParameter(endpoint, Head(missingParams))
           rest == generateParameterSuggestions(Tail(missingParams), endpoint)
       IN IF ~param.present THEN rest
          ELSE <<ParameterSuggestion(Head(missingParams), param.value)>> \o rest

RequestBodySuggestion(field) ==
  CASE field = "garage_id" ->
         "Please specify the garage ID (e.g., \"for garage way/123456\")"
    [] field = "customer_name" ->
         "Please provide the customer name (e.g., \"for John Doe\")"
    [] field = "service_type" ->
         "Please specify the service type (e.g., \"for oil change\" or \"for battery replacement\")"
    [] field = "appointment_date" ->
         "Please provide the appointment date (e.g., \"for 2025-01-15\")"
    [] field = "customer_email" ->
         "Please provide the customer email (e.g., \"for john@example.com\")"
    [] field = "customer_phone" ->
         "Please provide the customer phone (e.g., \"phone +1234567890\")"
    [] OTHER -> "Please provide a value for " \o field

generateRequestBodySuggestions(missingFields, endpoint) ==
  [i \in 1..Len(missingFields) |-> RequestBodySuggestion(missingFields[i])]

getBaseQueryForEndpoint(endpoint) ==
  LET method == ToLowerCase(endpoint.method)
      pathParts == Join(PathKeywords(endpoint.path), " ")
  IN CASE method = "get" -> "Get " \o pathParts
       [] method = "post" -> "Create " \o pathParts
       [] method = "put" -> "Update " \o pathParts
       [] method = "delete" -> "Delete " \o pathParts
       [] OTHER -> method \o " " \o pathParts

ParamExample(endpoint, paramName) ==
  LET param == FindParameter(endpoint, paramName)
      lower == ToLowerCase(paramName)
  IN IF Includes(lower, "id") THEN "with ID 123"
     ELSE IF Includes(lower, "email") THEN "for user@example.com"
     ELSE IF Includes(lower, "name") THEN "for John Doe"
     ELSE IF Includes(lower, "date") THEN "for 2025-01-15"
     ELSE IF param.present /\ param.value.type = "integer" THEN "limit 10"
     ELSE "with " \o paramName \o " value"

generateExampleQuery(endpoint, missingParams) ==
  getBaseQueryForEndpoint(endpoint) \o " " \o
    Join([i \in 1..Len(missingParams) |-> ParamExample(endpoint, missingParams[i])], " ")

\* an analysis that reports every required field, extracted or not
analyzeAllRequestBodyFields(endpoint, extractedFields) ==
  IF ~endpoint.requestBody.present THEN <<>>
  ELSE endpoint.requestBody.requiredFields

analyzeMissingRequestBodyFields(endpoint, extractedFields) ==
  IF ~endpoint.requestBody.present THEN <<>>
  ELSE LET NotExtracted(field) == field \notin DOMAIN extractedFields
       IN SelectSeq(endpoint.requestBody.requiredFields, NotExtracted)

\* an analysis that takes every declared parameter for a required one
MissingDeclaredParameters(endpoint, extractedParams) ==
  LET declared == [i \in 1..Len(endpoint.parameters) |->
                     endpoint.parameters[i].name]
      NotExtracted(name) == name \notin DOMAIN extractedParams
  IN SelectSeq(declared, NotExtracted)

MissingRequiredParameters(endpoint, extractedParams) ==
  LET IsRequired(param) == param.required
      required == SelectSeq(endpoint.parameters, IsRequired)
      requiredParams == [i \in 1..Len(required) |-> required[i].name]
      NotExtracted(name) == name \notin DOMAIN extractedParams
  IN SelectSeq(requiredParams, NotExtracted)

analyzeMissingInformation(query, endpoint, extractedParams) ==
  LET Report(missingRequired, missingBodyFields) ==
        IF Len(missingRequired \o missingBodyFields) = 0 THEN Undefined
        ELSE Some([requiredParams |-> missingRequired \o missingBodyFields,
                   suggestions |->
                     generateParameterSuggestions(missingRequired, endpoint)
                       \o generateRequestBodySuggestions(missingBodyFields, endpoint),
                   exampleQuery |->
                     generateExampleQuery(endpoint,
                                          missingRequired \o missingBodyFields),
                   requestBodyFields |->
                     IF Len(missingBodyFields) > 0 THEN Some(missingBodyFields)
                     ELSE Undefined])
  IN Report(MissingRequiredParameters(endpoint, extractedParams),
            IF endpoint.method \in MutatingMethods
            THEN analyzeMissingRequestBodyFields(
                   endpoint, extractRequestBodyFields(query, endpoint))
            ELSE <<>>)

\* The bullet character U+2022 of the source is written "-"
Bullets(items) == Join([i \in 1..Len(items) |-> "- " \o items[i]], "\n")

generateGuidance(missingInfo, endpoint) ==
  "I found the right endpoint (" \o endpoint.method \o " " \o endpoint.path
    \o "), but I need more information:\n\n"
    \o (IF missingInfo.requestBodyFields.present
          /\ Len(missingInfo.requestBodyFields.value) > 0
        THEN "**Missing required fields for " \o endpoint.method \o " request:**\n"
               \o Bullets(missingInfo.requestBodyFields.value) \o "\n\n"
        ELSE "")
    \o (IF Len(missingInfo.requiredParams) > 0
        THEN "**Missing required parameters:**\n"
               \o Bullets(missingInfo.requiredParams) \o "\n\n"
        ELSE "")
    \o "**Suggestions:**\n" \o Bullets(missingInfo.suggestions)
    \o "\n\n**Example query:**\n\"" \o missingInfo.exampleQuery \o "\""

(***************************************************************************)
(* Result enrichment helpers.                                              *)
(***************************************************************************)
\* endpoint is Undefined when no catalog entry was resolved
\* details that mark every parameter without value as missing
buildParameterDetailsAllRequired(extractedParams, endpoint) ==
  IF ~endpoint.present THEN <<>>
  ELSE [i \in 1..Len(endpoint.value.parameters) |->
          [name |-> endpoint.value.parameters[i].name,
           value |-> IF endpoint.value.parameters[i].name \in DOMAIN extractedParams
                     THEN Some(extractedParams[endpoint.value.parameters[i].name])
                     ELSE Undefined,
           type |-> endpoint.value.parameters[i].type,
           required |-> endpoint.value.parameters[i].required,
           location |-> IF endpoint.value.parameters[i].location # ""
                        THEN endpoint.value.parameters[i].location
                        ELSE "query",
           source |-> IF endpoint.value.parameters[i].name \in DOMAIN extractedParams
                      THEN "extracted" ELSE "missing"]]

buildParameterDetails(extractedParams, endpoint) ==
  IF ~endpoint.present THEN <<>>
  ELSE LET ep == endpoint.value
           Detail(param) ==
             LET hasValue == param.name \in DOMAIN extractedParams
                 location ==
                   IF param.location # "" THEN param.location
                   ELSE IF Includes(ep.path, "{" \o param.name \o "}") THEN "path"
                   ELSE IF ep.method \in MutatingMethods THEN "body"
                   ELSE "query"
             IN [name |-> param.name,
                 value |-> IF hasValue THEN Some(extractedParams[param.name])
                           ELSE Undefined,
                 type |-> param.type,
                 required |-> param.required,
                 location |-> location,
                 source |-> IF hasValue THEN "extracted"
                            ELSE IF param.required THEN "missing"
                            ELSE "optional"]
       IN [i \in 1..Len(ep.parameters) |-> Detail(ep.parameters[i])]

\* endpoint and method are optional strings of the (LLM or fallback) result
generateFallbackSummary(endpoint, method) ==
  LET action ==
        IF ~method.present THEN "Processing"
        ELSE CASE method.value = "GET" -> "Retrieving"
               [] method.value = "POST" -> "Creating"
               [] method.value = "PUT" -> "Updating"
               [] method.value = "DELETE" -> "Deleting"
               [] OTHER -> "Processing"
      parts == IF endpoint.present THEN PathKeywords(endpoint.value) ELSE <<>>
      resource == IF Len(parts) > 0 /\ parts[Len(parts)] # ""
                  THEN parts[Len(parts)] ELSE "resource"
  IN action \o " " \o resource \o " based on your request"

DefaultExpectedResponse == "API response will be returned after execution"

\* The outcome of a call: a returned QueryMatchResult, or a thrown error
Returned(result) == [kind |-> "result", result |-> result]

Threw(error) == [kind |-> "error", error |-> error]

OptionalString(s) == IF s = "" THEN Undefined ELSE Some(s)

(***************************************************************************)
(* matchWithFallback                                                       *)
(***************************************************************************)
matchWithFallback(manifest, query) ==
  LET Result(bestMatch, maxScore, params, missingInfo) ==
        Returned(
          [endpoint |-> Some(bestMatch.path),
           method |-> Some(bestMatch.method),
           params |-> Some(params),
           confidence |-> Some([num |-> maxScore, den |-> 10]),
           reasoning |-> Some("Matched based on keywords (score: "
                                \o NumToString(maxScore) \o ")"),
           summary |-> generateFallbackSummary(Some(bestMatch.path),
                                               Some(bestMatch.method)),
           apiName |-> manifest.name,
           endpointDescription |-> OptionalString(bestMatch.description),
           parameterDetails |-> buildParameterDetails(params, Some(bestMatch)),
           expectedResponse |-> DefaultExpectedResponse,
           missingInfo |-> missingInfo,
           guidance |-> IF missingInfo.present
                        THEN Some(generateGuidance(missingInfo.value, bestMatch))
                        ELSE Undefined])
      \* the missing-information analysis of the merged params
      Analyze(bestMatch, maxScore, params) ==
        Result(bestMatch, maxScore, params,
               analyzeMissingInformation(query, bestMatch, params))
      \* body fields are merged into params for POST, PUT and PATCH
      Merge(bestMatch, maxScore, params) ==
        Analyze(bestMatch, maxScore,
                IF bestMatch.method \in MutatingMethods
                THEN Assign(params, extractRequestBodyFields(query, bestMatch))
                ELSE params)
      \* bestMatch defaults to the first endpoint; on an empty catalog that
      \* is undefined and reading its method throws a TypeError
      Default(scored, extracted) ==
        IF extracted.threw THEN Threw("SyntaxError")
        ELSE IF scored.best = 0 /\ Len(manifest.endpoints) = 0
        THEN Threw("TypeError")
        ELSE Merge(IF scored.best = 0 THEN manifest.endpoints[1]
                   ELSE manifest.endpoints[scored.best],
                   scored.maxScore, extracted.params)
      \* parameters are extracted for bestMatch, which may still be null
      Extract(scored) ==
        Default(scored,
                extractParametersFromQuery(query,
                  IF scored.best = 0 THEN Undefined
                  ELSE Some(manifest.endpoints[scored.best])))
      Score(queryLower) ==
        Extract(BestMatch(manifest.endpoints, queryLower,
                          MatchedMethod(queryLower)))
  IN Score(ToLowerCase(query))

(***************************************************************************)
(* enrichResult.  llmResult is the value JSON.parse returned: the JSON     *)
(* null, or an object whose fields are optional.                           *)
(***************************************************************************)
JsonNull == [isNull |-> TRUE]

LLMResult(endpoint, method, params, confidence, reasoning, summary, expected, missing, guidance) ==
  [isNull |-> FALSE, endpoint |-> endpoint, method |-> method,
   params |-> params, confidence |-> confidence, reasoning |-> reasoning,
   summary |-> summary, expectedResponse |-> expected,
   missingInfo |-> missing, guidance |-> guidance]

\* JSON.parse('{}')
EmptyLLMResult ==
  LLMResult(Undefined, Undefined, Undefined, Undefined, Undefined, Undefined,
            Undefined, Undefined, Undefined)

FindEndpoint(manifest, endpoint, method) ==
  LET idx == {i \in 1..Len(manifest.endpoints) :
                /\ endpoint = Some(manifest.endpoints[i].path)
                /\ method = Some(manifest.endpoints[i].method)}
  IN IF idx = {} THEN Undefined ELSE Some(manifest.endpoints[Min(idx)])

enrichResult(manifest, llmResult, originalQuery) ==
  \* reading a property of null throws a TypeError
  IF llmResult.isNull THEN Threw("TypeError")
  ELSE
    LET matchedEndpoint ==
          FindEndpoint(manifest, llmResult.endpoint, llmResult.method)
    IN Returned(
         [endpoint |-> llmResult.endpoint,
          method |-> llmResult.method,
          params |-> llmResult.params,
          confidence |-> llmResult.confidence,
          reasoning |-> llmResult.reasoning,
          summary |-> IF llmResult.summary.present /\ llmResult.summary.value # ""
                      THEN llmResult.summary.value
                      ELSE generateFallbackSummary(llmResult.endpoint,
                                                   llmResult.method),
          apiName |-> manifest.name,
          endpointDescription |->
            IF matchedEndpoint.present
            THEN OptionalString(matchedEndpoint.value.description)
            ELSE Undefined,
          parameterDetails |->
            buildParameterDetails(
              IF llmResult.params.present THEN llmResult.params.value
              ELSE EmptyObject,
              matchedEndpoint),
          expectedResponse |->
            IF llmResult.expectedResponse.present
                 /\ llmResult.expectedResponse.value # ""
            THEN llmResult.expectedResponse.value
            ELSE DefaultExpectedResponse,
          missingInfo |-> llmResult.missingInfo,
          guidance |-> llmResult.guidance])

(***************************************************************************)
(* Catalogs and queries the model is run on.                               *)
(***************************************************************************)
GetPets ==
  MCPEndpoint("/pets", "GET", "List all pets",
              <<MCPParameter("limit", "integer", FALSE, "query")>>,
              NoRequestBody)

PostPets ==
  MCPEndpoint("/pets", "POST", "",
              <<>>,
              MCPRequestBody([name |-> "string", age |-> "integer"], <<"name">>))

PutUser ==
  MCPEndpoint("/users/{id}", "PUT", "Update a user",
              <<MCPParameter("id", "integer", TRUE, "")>>,
              MCPRequestBody([id |-> "integer", name |-> "string"],
                             <<"id", "name">>))

GetBooking ==
  MCPEndpoint("/bookings/{booking_id}", "GET", "Retrieve one booking",
              <<MCPParameter("booking_id", "integer", TRUE, "path")>>,
              NoRequestBody)

PostBooking ==
  MCPEndpoint("/bookings", "POST", "Create a booking",
              <<>>,
              MCPRequestBody([garage_id |-> "integer",
                              customer_name |-> "string",
                              appointment_date |-> "string",
                              notes |-> "string"],
                             <<"garage_id", "customer_name", "appointment_date">>))

\* a query parameter whose name is not a valid regular expression source
GetItems ==
  MCPEndpoint("/items", "GET", "Search items",
              <<MCPParameter("size(kb", "integer", FALSE, "query")>>,
              NoRequestBody)

PetStore == MCPManifest("Pet Store", <<GetPets, PostPets>>)

UserAdmin == MCPManifest("User Admin", <<PutUser>>)

Garage == MCPManifest("Garage", <<GetBooking, PostBooking>>)

Inventory == MCPManifest("Inventory", <<GetItems>>)

\* the minimal manifest startFromConfig builds when no manifest file exists
EmptyManifest == MCPManifest("MCP API Server", <<>>)

Catalogs == {PetStore, UserAdmin, Garage, Inventory, EmptyManifest}

Queries ==
  { "list pets limit 10",
    "create a pet",
    "create a pet named Max age=3",
    "update users id 5 name=Max",
    "update users name=Max id=5",
    "create bookings garage_id=1",
    "create bookings garage_id=1 customer_name=\"John Doe\" appointment_date=2025-01-15",
    "show bookings booking_id 7" }

\* Catalogs on which the choice between endpoints matters: two methods on
\* one path with one description, a path of two segments, endpoints of
\* equal score, and a catalog without GET endpoint
Users ==
  MCPManifest("Users",
    << MCPEndpoint("/users", "POST", "Manage users", <<>>, NoRequestBody),
       MCPEndpoint("/users", "GET", "Manage users", <<>>, NoRequestBody) >>)

Profiles ==
  MCPManifest("Profiles",
    << MCPEndpoint("/users/{id}", "GET", "Retrieve one user",
                   <<MCPParameter("id", "integer", TRUE, "path")>>,
                   NoRequestBody),
       MCPEndpoint("/users/profiles", "GET", "List user profiles", <<>>,
                   NoRequestBody),
       MCPEndpoint("/users", "POST", "Manage users", <<>>, NoRequestBody) >>)

Orders ==
  MCPManifest("Orders",
    << MCPEndpoint("/users", "POST", "Manage users", <<>>, NoRequestBody),
       MCPEndpoint("/Orders", "GET", "", <<>>, NoRequestBody),
       MCPEndpoint("/Orders/{order_id}", "GET", "",
                   <<MCPParameter("order_id", "integer", TRUE, "path")>>,
                   NoRequestBody) >>)

Sessions ==
  MCPManifest("Sessions",
    << MCPEndpoint("/sessions", "DELETE", "Close the Session", <<>>,
                   NoRequestBody),
       MCPEndpoint("/sessions", "POST", "Open a session", <<>>,
                   NoRequestBody) >>)

SelectCatalogs == {Users, Profiles, Orders, Sessions}

SelectQueries ==
  { "list all users",
    "Create users",
    "list users profiles",
    "show orders",
    "hello",
    "destroy it",
    "open a session" }

\* inputs of single fallback calls: Items answers to every method on one path
ExtractCatalogs ==
  { MCPManifest("Items",
      << MCPEndpoint("/items", "PATCH", "Items", <<>>, NoRequestBody),
         MCPEndpoint("/items", "DELETE", "Items", <<>>, NoRequestBody),
         MCPEndpoint("/items", "PUT", "Items", <<>>, NoRequestBody),
         MCPEndpoint("/items", "POST", "Items", <<>>, NoRequestBody),
         MCPEndpoint("/items", "GET", "Items", <<>>, NoRequestBody) >>),
    MCPManifest("Reports",
      << MCPEndpoint("/reports", "GET", "",
                     << MCPParameter("id", "integer", TRUE, "query"),
                        MCPParameter("start_date", "string", FALSE, "query"),
                        MCPParameter("due_date", "integer", FALSE, "query") >>,
                     NoRequestBody) >>),
    MCPManifest("Tasks",
      << MCPEndpoint("/tasks/{task_id}", "GET", "Retrieve one task",
                     << MCPParameter("task_id", "integer", TRUE, ""),
                        MCPParameter("verbose", "boolean", FALSE, ""),
                        MCPParameter("page", "integer", FALSE, "header") >>,
                     NoRequestBody),
         MCPEndpoint("/tasks/{task_id}", "POST", "",
                     << MCPParameter("title", "string", TRUE, ""),
                        MCPParameter("task_id", "integer", TRUE, ""),
                        MCPParameter("note", "string", FALSE, "") >>,
                     NoRequestBody) >>),
    UserAdmin, Garage, PetStore }

\* the answers of the model single semantic calls are run on: each endpoint
\* of the catalog, or a pair that is not in it, with or without params
EnrichAnswers(m) ==
  LET pairs == {<<m.endpoints[i].path, m.endpoints[i].method>> :
                  i \in DOMAIN m.endpoints}
               \cup {<<"/tasks/{task_id}", "DELETE">>, <<"/nowhere", "GET">>}
      params == {Undefined, Some(EmptyObject),
                 Some([task_id |-> NumVal(7)]),
                 Some([id |-> NumVal(5), verbose |-> StrVal("true")]),
                 Some([title |-> StrVal("x"), limit |-> NumVal(10)])}
  IN {LLMResult(Some(pair[1]), Some(pair[2]), given,
                Some([num |-> 9, den |-> 10]), Some("semantic match"),
                Undefined, Undefined, Undefined, Undefined) :
        pair \in pairs, given \in params}

ExtractQueries ==
  { "create and list items",
    "update or delete items",
    "remove new items",
    "partial update items",
    "patch items",
    "Destroy Items",
    "address book",
    "hello",
    "insert item",
    "Show me everything",
    "destroy id 7",
    "list reports id: 7",
    "reports start_date tomorrow until 2024-01-15",
    "reports due_date 2024-01-15",
    "reports from 2024-01-15",
    "create pet name=\"Max\" name=Bob age=3",
    "create pet name: Rex age=3",
    "create pet name: Rex, phone 555",
    "add notes='a b' notes='c d' garage=x garage=y" }

\* inputs of the server specification
ServerCatalogs == {PetStore, Inventory, EmptyManifest}

ServerQueries == {"list pets limit 10"}

(***************************************************************************)
(* The semantic backend: what openai.chat.completions.create settles to.   *)
(***************************************************************************)
\* JSON text of the message content: malformed, or the value it parses to
Malformed == [parses |-> FALSE]

JsonText(value) == [parses |-> TRUE, json |-> value]

\* a lenient parser that reads malformed text as the empty object
JSONParseLenient(text) ==
  IF text.parses THEN Returned(text.json) ELSE Returned(EmptyLLMResult)

JSONParse(text) ==
  IF text.parses THEN Returned(text.json) ELSE Threw("SyntaxError")

\* create() rejects: timeout, network failure, HTTP 401 or 500
Rejects == [rejects |-> TRUE]

\* create() resolves; content is choices[0].message.content
Resolves(content) == [rejects |-> FALSE, content |-> content]

LLMAnswer(endpoint, method) ==
  LLMResult(Some(endpoint), Some(method), Some(EmptyObject),
            Some([num |-> 9, den |-> 10]), Some("semantic match"),
            Undefined, Undefined, Undefined, Undefined)

\* an answer in the format the prompt asks for when a required parameter is
\* missing: the prompt lists missingInfo among the keys and no guidance key
LLMAnswerMissing(endpoint, method) ==
  LLMResult(Some(endpoint), Some(method), Some(EmptyObject),
            Some([num |-> 5, den |-> 10]), Some("semantic match"),
            Undefined, Undefined,
            Some([requiredParams |-> <<"id">>,
                  suggestions |-> <<"Please provide the id">>,
                  exampleQuery |-> "",
                  requestBodyFields |-> Undefined]),
            Undefined)

\* the answers the model can give for a catalog: its first endpoint, or a
\* pair that is not in the catalog
LLMAnswers(manifest) ==
  {LLMAnswer("/unknown", "GET"), LLMAnswerMissing("/unknown", "GET")} \cup
  {LLMAnswer(manifest.endpoints[i].path, manifest.endpoints[i].method) :
     i \in (1..Len(manifest.endpoints)) \cap {1}}

ModelResponses(manifest) ==
  {Resolves(Undefined), Resolves(Some(Malformed)),
   Resolves(Some(JsonText(JsonNull)))}
    \cup {Resolves(Some(JsonText(answer))) : answer \in LLMAnswers(manifest)}

(***************************************************************************)
(* ManifestGenerator: the catalog built from an API specification.         *)
(***************************************************************************)
\* String.prototype.endsWith
EndsWith(s, k) ==
  Len(k) <= Len(s) /\ SubSeq(s, Len(s) - Len(k) + 1, Len(s)) = k

\* The rules of inferTypeFromName on the lowercased name.  prop is the hint:
\* Undefined when absent, and then reading prop.description throws
InferRules(nameLower, prop) ==
  IF EndsWith(nameLower, "_id") \/ nameLower = "id"
       \/ StartsWithAt(nameLower, "id_", 1)
  THEN Returned("integer")
  ELSE IF (\E k \in {"count", "quantity", "number", "amount"} : Includes(nameLower, k))
  THEN Returned("integer")
  ELSE IF (\E k \in {"price", "cost", "rate", "fee"} : Includes(nameLower, k))
  THEN Returned("number")
  ELSE IF (\E k \in {"is_", "has_", "can_", "should_"} : StartsWithAt(nameLower, k, 1))
            \/ (\E k \in {"enabled", "active"} : Includes(nameLower, k))
  THEN Returned("boolean")
  ELSE IF Includes(nameLower, "date") /\ ~Includes(nameLower, "update")
            /\ ~Includes(nameLower, "time")
  THEN Returned("string")
  ELSE IF \/ (\E k \in {"timestamp", "datetime"} : Includes(nameLower, k))
          \/ Includes(nameLower, "created") /\ Includes(nameLower, "at")
          \/ Includes(nameLower, "updated") /\ Includes(nameLower, "at")
  THEN Returned("string")
  ELSE IF Includes(nameLower, "email")
  THEN Returned("string")
  ELSE IF EndsWith(nameLower, "s") \/ (\E k \in {"list", "array"} : Includes(nameLower, k))
  THEN IF ~prop.present THEN Threw("TypeError")
       \* prop.description?.toLowerCase().includes('array') || ...('list')
       ELSE IF /\ prop.value.description.present
               /\ \E k \in {"array", "list"} :
                    Includes(ToLowerCase(prop.value.description.value), k)
       THEN Returned("array")
       ELSE Returned("string")
  ELSE Returned("string")

inferTypeFromName(fieldName, prop) == InferRules(ToLowerCase(fieldName), prop)

\* A hint: the parameter or property object of the specification.  type is
\* the type written on the object itself (a Swagger 2.0 parameter, a schema
\* property), schemaType the one under schema (an OpenAPI 3 parameter)
Hint(type, schemaType, description) ==
  [type |-> type, schemaType |-> schemaType, description |-> description]

\* a parameter object of an operation
SpecParameter(name, in, required, hint) ==
  [name |-> name, in |-> in, required |-> required, hint |-> hint]

\* operation.requestBody with one media type and its schema, of which the
\* properties (name -> hint) and the required list are optional
SpecRequestBody(mediaType, properties, required) ==
  [mediaType |-> mediaType,
   schema |-> Some([properties |-> properties, required |-> required])]

\* an operation; summary and description are "" when absent
SpecOperation(summary, description, parameters, requestBody) ==
  [summary |-> summary, description |-> description,
   parameters |-> parameters, requestBody |-> requestBody]

\* requestBody.content?.['application/json'] || requestBody.content?.['*/*']
ContentSchema(requestBody) ==
  IF requestBody.mediaType \in {"application/json", "*/*"}
  THEN requestBody.schema
  ELSE Undefined

\* method.toUpperCase() on the methods generateFromSwagger lets through
MethodToUpperCase ==
  [get |-> "GET", post |-> "POST", put |-> "PUT", delete |-> "DELETE",
   patch |-> "PATCH"]

\* the type of a parameter is
\* param.schema?.type || this.inferTypeFromName(param.name, param)
ParsedParameters(operation) ==
  LET Parsed(param) ==
        MCPParameter(param.name,
                     IF param.hint.schemaType.present
                          /\ param.hint.schemaType.value # ""
                     THEN param.hint.schemaType.value
                     ELSE inferTypeFromName(param.name, Some(param.hint)).result,
                     param.required, param.in)
  IN IF ~operation.parameters.present THEN <<>>
     ELSE [i \in DOMAIN operation.parameters.value |->
             Parsed(operation.parameters.value[i])]

\* the type of a property is
\* prop.type || this.inferTypeFromName(propName, prop)
ParsedProperties(schema) ==
  LET Type(propName, prop) ==
        IF prop.type.present /\ prop.type.value # "" THEN prop.type.value
        ELSE inferTypeFromName(propName, Some(prop)).result
  IN IF ~schema.properties.present THEN EmptyObject
     ELSE [propName \in DOMAIN schema.properties.value |->
             Type(propName, schema.properties.value[propName])]

\* the requestBody of the endpoint: set only when the operation has a
\* request body whose JSON (or */*) content has a schema
ParsedRequestBody(operation) ==
  IF ~operation.requestBody.present
       \/ ~ContentSchema(operation.requestBody.value).present
  THEN NoRequestBody
  ELSE MCPRequestBody(
         ParsedProperties(ContentSchema(operation.requestBody.value).value),
         IF ContentSchema(operation.requestBody.value).value.required.present
         THEN ContentSchema(operation.requestBody.value).value.required.value
         ELSE <<>>)

parseEndpoint(path, method, operation) ==
  MCPEndpoint(path, MethodToUpperCase[method],
              IF operation.summary # "" THEN operation.summary
              ELSE operation.description,
              ParsedParameters(operation), ParsedRequestBody(operation))

\* generateFromSwagger and generateFromPostman on info.title ("" when
\* absent) and the entries [pathName, method, operation] of paths: entries
\* of a path item that are not one of the five methods are skipped
generateFromSwagger(title, paths) ==
  LET IsMethod(p) == p.method \in DOMAIN MethodToUpperCase
      Parsed(kept) ==
        [i \in DOMAIN kept |->
           parseEndpoint(kept[i].pathName, kept[i].method, kept[i].operation)]
  IN MCPManifest(IF title = "" THEN "API Server" ELSE title,
                 Parsed(SelectSeq(paths, IsMethod)))

(***************************************************************************)
(* Field names, hints and API specifications the generator is run on.      *)
(***************************************************************************)
FieldNames ==
  { "id", "garage_id", "id_card", "Order_ID", "price_id",
    "item_count", "quantity", "phone_number", "amount", "discount",
    "price", "cost", "rate", "fee", "created_rate",
    "is_open", "has_pets", "can_edit", "should_notify", "enabled", "active",
    "appointment_date", "updates", "date_times", "dates",
    "timestamp", "datetime", "created_at", "created_items", "updated_by",
    "email", "emails",
    "tags", "item_list", "array_data", "status", "name", "limit" }

Hints ==
  { Undefined,
    Some(Hint(Undefined, Undefined, Undefined)),
    Some(Hint(Undefined, Undefined, Some("List of items"))),
    Some(Hint(Undefined, Undefined, Some("An ARRAY of values"))),
    Some(Hint(Undefined, Undefined, Some("The value"))) }

\* Garage: POST /bookings with a JSON body, GET /bookings/{booking_id}, and
\* a parameters entry of the path item, which is not an operation.
\* Pet Store: a schema whose required list names a property it does not
\* declare (required and properties are independent keywords of JSON
\* Schema).  No title: a schema with a required list and no properties of
\* its own (they come from allOf), and a schema without required list.
\* Legacy: a Swagger 2.0 operation, the type written on the parameter
\* itself.  Upload: bodies without JSON content or without schema, and a
\* delete operation.
ApiSpecs ==
  { [title |-> "Garage",
     paths |->
       << [pathName |-> "/bookings", method |-> "post",
           operation |->
             SpecOperation("Create a booking", "", Undefined,
               Some(SpecRequestBody("application/json",
                 Some([garage_id |-> Hint(Undefined, Undefined, Undefined),
                       customer_name |-> Hint(Some("string"), Undefined, Undefined),
                       price |-> Hint(Undefined, Undefined, Undefined),
                       is_paid |-> Hint(Some("string"), Undefined, Undefined),
                       tags |-> Hint(Undefined, Undefined, Some("List of tags"))]),
                 Some(<<"garage_id", "customer_name">>))))],
          [pathName |-> "/bookings/{booking_id}", method |-> "get",
           operation |->
             SpecOperation("", "Retrieve one booking",
               Some(<<SpecParameter("booking_id", "path", TRUE,
                                    Hint(Undefined, Some("integer"), Undefined)),
                      SpecParameter("verbose", "query", FALSE,
                                    Hint(Undefined, Undefined, Undefined))>>),
               Undefined)],
          [pathName |-> "/bookings/{booking_id}", method |-> "parameters",
           operation |-> SpecOperation("", "", Undefined, Undefined)] >>],
    [title |-> "Pet Store",
     paths |->
       << [pathName |-> "/pets", method |-> "post",
           operation |->
             SpecOperation("Create a pet", "", Undefined,
               Some(SpecRequestBody("*/*",
                 Some([age |-> Hint(Some("integer"), Undefined, Undefined)]),
                 Some(<<"name">>))))] >>],
    [title |-> "",
     paths |->
       << [pathName |-> "/users", method |-> "put",
           operation |->
             SpecOperation("Update a user", "", Undefined,
               Some(SpecRequestBody("application/json", Undefined,
                                    Some(<<"name">>))))],
          [pathName |-> "/users", method |-> "patch",
           operation |->
             SpecOperation("Patch a user", "", Undefined,
               Some(SpecRequestBody("application/json",
                 Some([name |-> Hint(Undefined, Undefined, Undefined)]),
                 Undefined)))] >>],
    [title |-> "Legacy",
     paths |->
       << [pathName |-> "/items", method |-> "get",
           operation |->
             SpecOperation("List items", "",
               Some(<<SpecParameter("limit", "query", FALSE,
                                    Hint(Some("integer"), Undefined, Undefined))>>),
               Undefined)] >>],
    [title |-> "Upload",
     paths |->
       << [pathName |-> "/files", method |-> "post",
           operation |->
             SpecOperation("Upload", "", Undefined,
               Some(SpecRequestBody("text/plain", Undefined, Some(<<"name">>))))],
          [pathName |-> "/files", method |-> "put",
           operation |->
             SpecOperation("Replace", "", Undefined,
               Some([mediaType |-> "application/json", schema |-> Undefined]))],
          [pathName |-> "/files/{file_id}", method |-> "delete",
           operation |->
             SpecOperation("Delete", "",
               Some(<<SpecParameter("file_id", "path", TRUE,
                                    Hint(Undefined, Undefined, Undefined))>>),
               Undefined)] >>],
    [title |-> "", paths |-> <<>>] }

(***************************************************************************)
(* State of the server.                                                    *)
(***************************************************************************)
VARIABLES
  manifest,            \* MCPServer.manifest
  queryMatcher,        \* MCPServer.queryMatcher
  config,              \* openaiApiKey, llmModel, manifestEnhancement, and
                       \* whether process.env.OPENAI_API_KEY is set
  requests,            \* the /mcp/query requests, in order of arrival
  updates,             \* the /api/update-spec requests, in order of arrival
  generated            \* the last call of ManifestGenerator and its outcome

vars == <<manifest, queryMatcher, config, requests, updates, generated>>

DefaultModel == "gpt-4o-mini"

\* new QueryMatcher(manifest, openaiApiKey, modelName); a key is modelled by
\* whether it is set, an unset model name by ""
QueryMatcher(m, openaiApiKey, envKey, modelName) ==
  [manifest |-> m,
   openai |-> (openaiApiKey \/ envKey),
   modelName |-> IF modelName = "" THEN DefaultModel ELSE modelName]

ServerConfig(openaiApiKey, envKey, llmModel, manifestEnhancement) ==
  [openaiApiKey |-> openaiApiKey, envKey |-> envKey, llmModel |-> llmModel,
   manifestEnhancement |-> manifestEnhancement]

Configs ==
  { ServerConfig(FALSE, FALSE, "", FALSE),
    ServerConfig(TRUE, FALSE, "gpt-4o", TRUE),
    ServerConfig(FALSE, TRUE, "", FALSE) }

\* MCPServer constructor
InitWith(catalogs, configs) ==
  /\ manifest \in catalogs
  /\ config \in configs
  /\ queryMatcher =
       QueryMatcher(manifest, config.openaiApiKey, config.envKey, config.llmModel)
  /\ requests = <<>>
  /\ updates = <<>>
  /\ generated = [call |-> "", fieldName |-> "", prop |-> Undefined,
                  apiSpec |-> [title |-> "", paths |-> <<>>],
                  outcome |-> Threw("")]

Init == InitWith(ServerCatalogs, Configs)

(***************************************************************************)
(* POST /mcp/query and QueryMatcher.matchQuery                             *)
(***************************************************************************)
\* a matcher that reads the server's current manifest instead of its own
ManifestOfServer(matcher) == manifest

\* this.manifest inside a QueryMatcher
ManifestOf(matcher) == matcher.manifest

\* a fallback whose extraction patterns are shared between calls and keep
\* their position: calls after the first extract nothing
RunFallbackSharedPatterns(request, cause) ==
  LET outcome == matchWithFallback(ManifestOf(request.matcher), request.query)
  IN [request EXCEPT
        !.pc = "done", !.cause = cause, !.fallbackRuns = @ + 1,
        !.outcome = IF outcome.kind = "result" /\ requests # <<>>
                    THEN Returned([outcome.result EXCEPT
                                     !.params = Some(EmptyObject)])
                    ELSE outcome]

\* matchWithFallback run by a request; its result is what matchQuery returns
RunFallback(request, cause) ==
  [request EXCEPT !.pc = "done",
                  !.cause = cause,
                  !.fallbackRuns = @ + 1,
                  !.outcome = matchWithFallback(ManifestOf(request.matcher),
                                                request.query)]

\* A request entering the handler.  matcher is the QueryMatcher the handler
\* calls; startManifest, after (the requests already answered) and replaced
\* (a manifest was installed while the request was pending) record history.
NewRequest(query) ==
  [query |-> query, matcher |-> queryMatcher, startManifest |-> manifest,
   after |-> {i \in DOMAIN requests : requests[i].pc = "done"},
   replaced |-> FALSE,
   pc |-> "start", cause |-> "", modelCalls |-> 0, fallbackRuns |-> 0,
   response |-> Rejects, outcome |-> Threw("")]

\* matchQuery without a semantic client: the fallback runs synchronously
QueryFallback(query) ==
  /\ ~queryMatcher.openai
  /\ requests' = Append(requests, RunFallback(NewRequest(query), "no client"))
  /\ UNCHANGED <<manifest, queryMatcher, config, updates, generated>>

\* matchQuery with a semantic client: the request is sent and awaited
QueryCallModel(query) ==
  /\ queryMatcher.openai
  /\ requests' = Append(requests,
       [NewRequest(query) EXCEPT !.pc = "calling", !.modelCalls = @ + 1])
  /\ UNCHANGED <<manifest, queryMatcher, config, updates, generated>>

\* the awaited call rejects: the catch block runs the fallback
ModelRejects(i) ==
  /\ i \in 1..Len(requests)
  /\ requests[i].pc = "calling"
  /\ requests' = [requests EXCEPT ![i] =
       RunFallback([requests[i] EXCEPT !.response = Rejects], "call failed")]
  /\ UNCHANGED <<manifest, queryMatcher, config, updates, generated>>

\* response.choices[0].message.content || '{}'
MessageContent(response) ==
  IF response.content.present THEN response.content.value
  ELSE JsonText(EmptyLLMResult)

\* a continuation that calls the model again when the content does not parse
AfterResponseRetry(request, response) ==
  LET answered == [request EXCEPT !.response = response]
      parsed == JSONParse(MessageContent(response))
      enriched == IF parsed.kind = "error" THEN parsed
                  ELSE enrichResult(ManifestOf(request.matcher), parsed.result,
                                    request.query)
  IN IF parsed.kind = "error" /\ request.modelCalls < 2
     THEN [answered EXCEPT !.modelCalls = @ + 1]
     ELSE IF parsed.kind = "error" \/ enriched.kind = "error"
     THEN [answered EXCEPT !.pc = "done", !.cause = "parse failed",
                           !.fallbackRuns = @ + 1,
                           !.outcome = matchWithFallback(
                              ManifestOf(request.matcher), request.query)]
     ELSE [answered EXCEPT !.pc = "done", !.cause = "semantic",
                           !.outcome = enriched]

\* the continuation of matchWithOpenAI after the call resolved
AfterResponse(request, response) ==
  LET answered == [request EXCEPT !.response = response]
      parsed == JSONParse(MessageContent(response))
      enriched == IF parsed.kind = "error" THEN parsed
                  ELSE enrichResult(ManifestOf(request.matcher), parsed.result,
                                    request.query)
  IN IF parsed.kind = "error" \/ enriched.kind = "error"
     THEN RunFallback(answered, IF parsed.kind = "error" THEN "parse failed"
                                ELSE "enrich failed")
     ELSE [answered EXCEPT !.pc = "done", !.cause = "semantic",
                           !.outcome = enriched]

ModelResponds(i, response) ==
  /\ i \in 1..Len(requests)
  /\ requests[i].pc = "calling"
  /\ requests' = [requests EXCEPT ![i] = AfterResponse(requests[i], response)]
  /\ UNCHANGED <<manifest, queryMatcher, config, updates, generated>>

(***************************************************************************)
(* ManifestEnhancer.  A type that is missing is written "".  The answer of *)
(* the model to the call made for one endpoint is an outcome: the call or  *)
(* JSON.parse throws, or an object whose parameters list is optional and   *)
(* whose entries have a name and an optional inferredType.                 *)
(***************************************************************************)
\* the names findMissingTypes returns, of parameters and of properties
findMissingTypes(endpoint) ==
  {p.name : p \in {q \in Range(endpoint.parameters) : q.type \in {"", "string"}}}
    \cup {name \in DOMAIN endpoint.requestBody.properties :
            endpoint.requestBody.properties[name] \in {"", "string"}}

isValidType(type) ==
  /\ type.present
  /\ type.value \in {"string", "integer", "number", "boolean", "array", "object"}

\* enhancement.parameters.find((e) => e.name === name), then the test
\* enhanced && this.isValidType(enhanced.inferredType)
EnhancedType(entries, name, type) ==
  LET hits == {i \in DOMAIN entries : entries[i].name = name}
      First(i) == IF isValidType(entries[i].inferredType)
                  THEN entries[i].inferredType.value
                  ELSE type
  IN IF hits = {} THEN type
     ELSE First(CHOOSE i \in hits : \A j \in hits : i <= j)

applyEnhancements(endpoint, enhancement) ==
  IF ~enhancement.parameters.present THEN endpoint
  ELSE [endpoint EXCEPT
          !.parameters =
            [i \in DOMAIN endpoint.parameters |->
               [endpoint.parameters[i] EXCEPT
                  !.type = EnhancedType(enhancement.parameters.value,
                                        endpoint.parameters[i].name, @)]],
          !.requestBody.properties =
            [name \in DOMAIN endpoint.requestBody.properties |->
               EnhancedType(enhancement.parameters.value, name,
                            endpoint.requestBody.properties[name])]]

\* enhanceEndpoint followed by 'enhanced || endpoint': no call is made when
\* no field is selected, and every error is caught
enhanceEndpoint(endpoint, answer) ==
  IF findMissingTypes(endpoint) = {} THEN endpoint
  ELSE IF answer.kind = "error" THEN endpoint
  ELSE applyEnhancements(endpoint, answer.result)

\* enhanceManifest; answers[i] is the outcome of the call for endpoint i
enhanceManifest(m, answers) ==
  [m EXCEPT !.endpoints =
     [i \in DOMAIN m.endpoints |-> enhanceEndpoint(m.endpoints[i], answers[i])]]

\* the answers of the model enhancement is run on: a failed call, and a
\* list naming fields with a type
Enhancements ==
  { Threw("Error"),
    Returned([parameters |->
      Some(<<[name |-> "name", inferredType |-> Some("integer")],
             [name |-> "name", inferredType |-> Some("boolean")],
             [name |-> "limit", inferredType |-> Undefined],
             [name |-> "age", inferredType |-> Some("number")]>>)]) }

(***************************************************************************)
(* POST /api/update-spec                                                   *)
(***************************************************************************)
\* the body of an update request: specContent that fails to parse or
\* validate, or specContent from which the generator builds a manifest
InvalidSpec == [valid |-> FALSE, manifest |-> EmptyManifest]

ValidSpec(m) == [valid |-> TRUE, manifest |-> m]

SpecContents == {InvalidSpec} \cup {ValidSpec(m) : m \in ServerCatalogs}

\* the manifests enhanceManifest can return for a manifest, the model
\* giving the same answer for each of its endpoints
EnhancedManifests(m) ==
  {enhanceManifest(m, [i \in DOMAIN m.endpoints |-> answer]) :
     answer \in Enhancements}

\* an update that writes the new endpoints into the installed manifest
\* object and keeps the rest of it
InstallInPlace(newManifest) ==
  /\ manifest' = [manifest EXCEPT !.endpoints = newManifest.endpoints]
  /\ queryMatcher' = QueryMatcher(manifest', config.envKey, config.envKey, "")
  /\ requests' = [i \in DOMAIN requests |->
                    IF requests[i].pc = "calling"
                    THEN [requests[i] EXCEPT !.replaced = TRUE]
                    ELSE requests[i]]

\* an update that replaces the manifest and keeps the matcher it had
InstallManifestOnly(newManifest) ==
  /\ manifest' = newManifest
  /\ queryMatcher' = queryMatcher
  /\ requests' = [i \in DOMAIN requests |->
                    IF requests[i].pc = "calling"
                    THEN [requests[i] EXCEPT !.replaced = TRUE]
                    ELSE requests[i]]

\* this.manifest = newManifest; this.queryMatcher = new QueryMatcher(
\*   this.manifest, process.env.OPENAI_API_KEY, undefined)
Install(newManifest) ==
  /\ manifest' = newManifest
  /\ queryMatcher' = QueryMatcher(newManifest, config.envKey, config.envKey, "")
  /\ requests' = [i \in DOMAIN requests |->
                    IF requests[i].pc = "calling"
                    THEN [requests[i] EXCEPT !.replaced = TRUE]
                    ELSE requests[i]]

\* specContent is missing: 400, nothing else happens
UpdateMissingContent ==
  /\ Len(updates) < MaxUpdates
  /\ updates' = Append(updates, [pc |-> "rejected", spec |-> InvalidSpec,
                                 newManifest |-> EmptyManifest,
                                 enhancement |-> "none"])
  /\ UNCHANGED <<manifest, queryMatcher, config, requests, generated>>

\* the handler starts to parse and validate the specification (awaited)
UpdateStart(spec) ==
  /\ Len(updates) < MaxUpdates
  /\ updates' = Append(updates, [pc |-> "parsing", spec |-> spec,
                                 newManifest |-> EmptyManifest,
                                 enhancement |-> "none"])
  /\ UNCHANGED <<manifest, queryMatcher, config, requests, generated>>

\* parsing or validation throws: 400 'Parse failed'
UpdateParseFails(i) ==
  /\ i \in 1..Len(updates)
  /\ updates[i].pc = "parsing"
  /\ ~updates[i].spec.valid
  /\ updates' = [updates EXCEPT ![i].pc = "rejected"]
  /\ UNCHANGED <<manifest, queryMatcher, config, requests, generated>>

EnhancementEnabled == config.manifestEnhancement /\ config.openaiApiKey

\* the manifest is generated and no enhancement is configured: it is installed
UpdateParsedInstall(i) ==
  /\ i \in 1..Len(updates)
  /\ updates[i].pc = "parsing"
  /\ updates[i].spec.valid
  /\ ~EnhancementEnabled
  /\ Install(updates[i].spec.manifest)
  /\ updates' = [updates EXCEPT ![i].pc = "done",
                                ![i].newManifest = updates[i].spec.manifest]
  /\ UNCHANGED <<config, generated>>

\* the manifest is generated and the enhancer is awaited
UpdateParsedEnhance(i) ==
  /\ i \in 1..Len(updates)
  /\ updates[i].pc = "parsing"
  /\ updates[i].spec.valid
  /\ EnhancementEnabled
  /\ updates' = [updates EXCEPT ![i].pc = "enhancing",
                                ![i].newManifest = updates[i].spec.manifest]
  /\ UNCHANGED <<manifest, queryMatcher, config, requests, generated>>

\* the enhancer resolves: the manifest it returns is installed.  enhancement
\* records whether the calls of the model failed inside the enhancer
UpdateEnhanced(i) ==
  /\ i \in 1..Len(updates)
  /\ updates[i].pc = "enhancing"
  /\ \E answer \in Enhancements :
       /\ Install(enhanceManifest(updates[i].newManifest,
                     [e \in DOMAIN updates[i].newManifest.endpoints |-> answer]))
       /\ updates' = [updates EXCEPT
            ![i].pc = "done",
            ![i].newManifest = manifest',
            ![i].enhancement = IF answer.kind = "error" THEN "failed"
                               ELSE "applied"]
  /\ UNCHANGED <<config, generated>>

\* an update whose enhancement fails answers 'Update failed' and installs
\* nothing
UpdateEnhanceFailsRejects(i) ==
  /\ i \in 1..Len(updates)
  /\ updates[i].pc = "enhancing"
  /\ updates' = [updates EXCEPT ![i].pc = "rejected",
                                ![i].enhancement = "failed"]
  /\ UNCHANGED <<manifest, queryMatcher, config, requests, generated>>

\* the enhancer throws: the basic manifest is installed
UpdateEnhanceFails(i) ==
  /\ i \in 1..Len(updates)
  /\ updates[i].pc = "enhancing"
  /\ Install(updates[i].newManifest)
  /\ updates' = [updates EXCEPT ![i].pc = "done",
                                ![i].enhancement = "failed"]
  /\ UNCHANGED <<config, generated>>

(***************************************************************************)
(* Calls of ManifestGenerator                                              *)
(***************************************************************************)
InferType(fieldName, prop) ==
  /\ generated' = [call |-> "inferTypeFromName", fieldName |-> fieldName,
                   prop |-> prop, apiSpec |-> [title |-> "", paths |-> <<>>],
                   outcome |-> inferTypeFromName(fieldName, prop)]
  /\ UNCHANGED <<manifest, queryMatcher, config, requests, updates>>

Generate(apiSpec) ==
  /\ generated' = [call |-> "generateFromSwagger", fieldName |-> "",
                   prop |-> Undefined, apiSpec |-> apiSpec,
                   outcome |-> Returned(generateFromSwagger(apiSpec.title,
                                                            apiSpec.paths))]
  /\ UNCHANGED <<manifest, queryMatcher, config, requests, updates>>

(***************************************************************************)
(* The read-only routes.  Their handlers are synchronous: the response is  *)
(* a function of the state in which the request is handled.                *)
(***************************************************************************)
\* GET /.well-known/mcp/manifest.json
ManifestRoute == manifest

\* GET /api/endpoints
EndpointsRoute == manifest.endpoints

\* GET /api/info and GET /api/spec-info
InfoRoute == [name |-> manifest.name, endpointCount |-> Len(manifest.endpoints)]

(***************************************************************************)
(* Specifications                                                          *)
(***************************************************************************)
Next ==
  \/ \E query \in ServerQueries :
       Len(requests) < MaxRequests /\ QueryFallback(query)
  \/ \E query \in ServerQueries :
       Len(requests) < MaxRequests /\ QueryCallModel(query)
  \/ \E i \in DOMAIN requests : ModelRejects(i)
  \/ \E i \in DOMAIN requests :
       \E response \in ModelResponses(requests[i].matcher.manifest) :
         ModelResponds(i, response)
  \/ UpdateMissingContent
  \/ \E spec \in SpecContents : UpdateStart(spec)
  \/ \E i \in DOMAIN updates : UpdateParseFails(i)
  \/ \E i \in DOMAIN updates : UpdateParsedInstall(i)
  \/ \E i \in DOMAIN updates : UpdateParsedEnhance(i)
  \/ \E i \in DOMAIN updates : UpdateEnhanced(i)
  \/ \E i \in DOMAIN updates : UpdateEnhanceFails(i)

Spec == Init /\ [][Next]_vars

\* The fallback matcher alone: a server without semantic client, run on
\* every catalog and query
InitFallback == InitWith(Catalogs, {ServerConfig(FALSE, FALSE, "", FALSE)})

NextFallback ==
  \E query \in Queries : Len(requests) < MaxCalls /\ QueryFallback(query)

SpecFallback == InitFallback /\ [][NextFallback]_vars

\* The choice of the endpoint by the fallback matcher
InitSelect == InitWith(SelectCatalogs, {ServerConfig(FALSE, FALSE, "", FALSE)})

NextSelect ==
  \E query \in SelectQueries : Len(requests) < MaxCalls /\ QueryFallback(query)

SpecSelect == InitSelect /\ [][NextSelect]_vars

\* Single calls of the fallback matcher
InitExtract == InitWith(ExtractCatalogs, {ServerConfig(FALSE, FALSE, "", FALSE)})

NextExtract ==
  \E query \in ExtractQueries : requests = <<>> /\ QueryFallback(query)

SpecExtract == InitExtract /\ [][NextExtract]_vars

\* Single calls of the semantic matcher, answered by the model
InitEnrich == InitWith(ExtractCatalogs, {ServerConfig(TRUE, FALSE, "", FALSE)})

NextEnrich ==
  \/ requests = <<>> /\ QueryCallModel("show it")
  \/ \E answer \in EnrichAnswers(manifest) :
       ModelResponds(1, Resolves(Some(JsonText(answer))))

SpecEnrich == InitEnrich /\ [][NextEnrich]_vars

\* The manifest generator and its type inference, run on every field name,
\* hint and API specification
InitGenerator ==
  InitWith({EmptyManifest}, {ServerConfig(FALSE, FALSE, "", FALSE)})

NextGenerator ==
  \/ \E fieldName \in FieldNames, prop \in Hints : InferType(fieldName, prop)
  \/ \E apiSpec \in ApiSpecs : Generate(apiSpec)

SpecGenerator == InitGenerator /\ [][NextGenerator]_vars

\* The server's own steps are taken when enabled; nothing obliges the
\* semantic backend to answer, and the matcher sets no timeout on its call
SpecLive ==
  /\ Spec
  /\ \A i \in 1..MaxUpdates :
       WF_vars(UpdateParseFails(i) \/ UpdateParsedInstall(i)
                 \/ UpdateParsedEnhance(i))

(***************************************************************************)
(* Properties                                                              *)
(***************************************************************************)
Done(i) == requests[i].pc = "done"

NonEmpty(m) == Len(m.endpoints) > 0

\* the semantic call of a finished request threw, or its content did not parse
CallThrewOrMalformed(r) ==
  /\ r.modelCalls = 1
  /\ \/ r.response.rejects
     \/ /\ ~r.response.rejects
        /\ r.response.content.present
        /\ ~r.response.content.value.parses

\* the response of a finished request carried no message content
NoContent(r) ==
  /\ r.modelCalls = 1
  /\ ~r.response.rejects
  /\ ~r.response.content.present

\* C1 (as claimed): on a non-empty catalog matchQuery always completes with
\* a MatchResult and never throws, with or without semantic client and
\* whether the semantic call succeeds or fails.
C1_NeverThrows ==
  \A i \in DOMAIN requests :
    (Done(i) /\ NonEmpty(requests[i].matcher.manifest))
      => requests[i].outcome.kind = "result"

\* C2: when the semantic call fails (it rejects, or the content is malformed
\* JSON), what matchQuery returns on a non-empty catalog is exactly what the
\* fallback matcher produces for the same query and catalog.
C2_FailureEqualsFallback ==
  \A i \in DOMAIN requests :
    (Done(i) /\ NonEmpty(requests[i].startManifest)
       /\ CallThrewOrMalformed(requests[i]))
      => requests[i].outcome =
           matchWithFallback(requests[i].startManifest, requests[i].query)

C2_Witness ==
  \E i \in DOMAIN requests, j \in DOMAIN requests :
    /\ Done(i) /\ Done(j)
    /\ NonEmpty(requests[i].startManifest)
    /\ requests[i].response.rejects /\ requests[i].modelCalls = 1
    /\ requests[i].outcome.kind = "result"
    /\ ~requests[j].response.rejects /\ CallThrewOrMalformed(requests[j])
    /\ NonEmpty(requests[j].startManifest)

\* C3 (as claimed): whenever the model call throws, or the response carries no
\* message content, or the content is not parseable JSON, matchWithFallback
\* runs and its result is what the caller receives.
C3_EveryFailureFallsBack ==
  \A i \in DOMAIN requests :
    (Done(i) /\ (CallThrewOrMalformed(requests[i]) \/ NoContent(requests[i])))
      => /\ requests[i].fallbackRuns = 1
         /\ requests[i].outcome =
              matchWithFallback(requests[i].matcher.manifest, requests[i].query)

\* C4 (as claimed): on an empty catalog matchQuery never returns a
\* MatchResult; every path ends in an error.
C4_EmptyCatalogIsError ==
  \A i \in DOMAIN requests :
    (Done(i) /\ ~NonEmpty(requests[i].matcher.manifest))
      => requests[i].outcome.kind = "error"

\* what a finished request returns when every read goes to catalog m
OutcomeOn(m, r) ==
  IF r.cause = "semantic"
  THEN enrichResult(m, MessageContent(r.response).json, r.query)
  ELSE matchWithFallback(m, r.query)

\* C5: a query that was pending while a manifest was installed finishes on
\* the catalog that was current when it started: endpoint lookup, parameter
\* details and fallback matching all read that catalog.
C5_BoundToStartCatalog ==
  \A i \in DOMAIN requests :
    (Done(i) /\ requests[i].replaced)
      => requests[i].outcome = OutcomeOn(requests[i].startManifest, requests[i])

C5_Witness ==
  \E i \in DOMAIN requests, j \in DOMAIN requests :
    /\ Done(i) /\ requests[i].replaced
    /\ requests[i].startManifest # manifest
    /\ requests[i].cause = "semantic"
    /\ requests[i].response.content.present
    /\ requests[i].outcome.result.endpointDescription.present
    /\ Done(j) /\ requests[j].replaced
    /\ requests[j].startManifest # manifest
    /\ requests[j].fallbackRuns = 1
    /\ requests[j].outcome.kind = "result"

Failed(r) ==
  r.pc = "done" /\ r.cause \in {"call failed", "parse failed", "enrich failed"}

\* C6: per query, Idle -> Calling Model -> Success | Failure -> Fallback ->
\* Done, or Idle -> Fallback -> Done: at most one model request, the
\* fallback at most once and only without client or after a failed call, and
\* a query that starts after a failure on the same matcher calls the model.
C6_QueryStateMachine ==
  \A j \in DOMAIN requests :
    LET r == requests[j]
    IN /\ r.modelCalls <= 1
       /\ r.fallbackRuns <= 1
       /\ r.pc \in {"calling", "done"}
       /\ r.pc = "calling" =>
            r.matcher.openai /\ r.modelCalls = 1 /\ r.fallbackRuns = 0
       /\ (r.pc = "done" /\ r.fallbackRuns = 0) =>
            r.modelCalls = 1 /\ r.cause = "semantic" /\ ~r.response.rejects
       /\ (r.pc = "done" /\ r.fallbackRuns = 1) =>
            \/ ~r.matcher.openai /\ r.modelCalls = 0
            \/ r.matcher.openai /\ r.modelCalls = 1 /\ Failed(r)
       /\ \A i \in r.after :
            (Failed(requests[i]) /\ requests[i].matcher = r.matcher)
              => r.modelCalls = 1

C6_Witness ==
  \E j \in DOMAIN requests :
    \E i \in requests[j].after :
      /\ Failed(requests[i])
      /\ requests[i].matcher = requests[j].matcher
      /\ requests[i].fallbackRuns = 1
      /\ requests[j].modelCalls = 1
      /\ requests[j].pc = "done"
      /\ requests[j].cause = "semantic"

\* C7 (as claimed): every matchQuery call eventually completes even if the
\* model backend never answers.
C7_EveryQueryCompletes ==
  \A i \in 1..MaxRequests :
    (i \in DOMAIN requests /\ requests[i].pc = "calling")
      ~> (i \in DOMAIN requests /\ requests[i].pc = "done")

ReturnedEndpoint(r) ==
  FindEndpoint(r.startManifest, r.outcome.result.endpoint,
               r.outcome.result.method).value

FallbackReturned(i) ==
  Done(i) /\ requests[i].fallbackRuns = 1 /\ requests[i].outcome.kind = "result"

\* The call answered last.  Calls to the fallback matcher are answered at
\* once and their records never change, so every call is the latest one in
\* the state it leads to.
Latest == {i \in DOMAIN requests : i = Len(requests)}

MissingParameters(endpoint, keys) ==
  {endpoint.parameters[p].name : p \in
     {p \in 1..Len(endpoint.parameters) :
        endpoint.parameters[p].required /\ endpoint.parameters[p].name \notin keys}}

RequiredFields(endpoint) ==
  IF endpoint.method \in MutatingMethods
  THEN Range(endpoint.requestBody.requiredFields)
  ELSE {}

\* C9 (as claimed): missingInfo is present iff some required parameter of the
\* returned endpoint, or for POST/PUT/PATCH some name of
\* requestBody.requiredFields, is not a key of the result's params.
C9_MissingIffNotInParams ==
  \A i \in Latest :
    FallbackReturned(i) =>
      LET result == requests[i].outcome.result
          endpoint == ReturnedEndpoint(requests[i])
          keys == DOMAIN result.params.value
      IN result.missingInfo.present
           <=> \/ MissingParameters(endpoint, keys) # {}
               \/ RequiredFields(endpoint) \ keys # {}

\* C9 (amended): missingInfo is present iff some required parameter of the
\* returned endpoint is not a key of params, or for POST/PUT/PATCH some name
\* of requestBody.requiredFields is not among the body fields extracted from
\* the query; a name that params holds from parameter extraction only still
\* counts as a missing body field.
C9_MissingIffNotExtracted ==
  \A i \in Latest :
    FallbackReturned(i) =>
      LET result == requests[i].outcome.result
          endpoint == ReturnedEndpoint(requests[i])
          keys == DOMAIN result.params.value
          bodyKeys == DOMAIN extractRequestBodyFields(requests[i].query, endpoint)
      IN /\ bodyKeys \subseteq keys \/ endpoint.method \notin MutatingMethods
         /\ result.missingInfo.present
              <=> \/ MissingParameters(endpoint, keys) # {}
                  \/ RequiredFields(endpoint) \ bodyKeys # {}

C9_Witness ==
  \E i \in DOMAIN requests :
    /\ FallbackReturned(i)
    /\ requests[i].outcome.result.missingInfo.present
    /\ LET endpoint == ReturnedEndpoint(requests[i])
           keys == DOMAIN requests[i].outcome.result.params.value
       IN /\ MissingParameters(endpoint, keys) = {}
          /\ RequiredFields(endpoint) # {}
          /\ RequiredFields(endpoint) \subseteq keys

\* the query holds field=value, the field name starting at a word boundary
SuppliesPair(query, field) ==
  \E i \in 1..Len(query) :
    /\ i = 1 \/ CharAt(query, i - 1) \notin WordChars
    /\ unquotedPatternAt(query, i).found
    /\ unquotedPatternAt(query, i).key = field

\* the query holds no key=value pair and names the field in natural language
SuppliesInWords(query, field) ==
  /\ ~ExecFrom(query, 1, FALSE).found
  /\ \E p \in 1..Len(patterns) :
       /\ patterns[p].field = field
       /\ MatchWordsThenCapture(query, patterns[p].words, patterns[p].group).found

Supplies(query, field) ==
  SuppliesPair(query, field) \/ SuppliesInWords(query, field)

\* C10: for a returned POST/PUT/PATCH endpoint with required body fields,
\* requestBodyFields lists exactly the required fields the query does not
\* supply and requiredParams lists them next to the missing required
\* parameters; when the query supplies every required field (and no required
\* parameter is missing) there is no missingInfo.
C10_MissingBodyFields ==
  \A i \in Latest :
    (FallbackReturned(i) /\ RequiredFields(ReturnedEndpoint(requests[i])) # {}) =>
      LET result == requests[i].outcome.result
          endpoint == ReturnedEndpoint(requests[i])
          missingParams == MissingParameters(endpoint, DOMAIN result.params.value)
          missingFields == {f \in RequiredFields(endpoint) :
                              ~Supplies(requests[i].query, f)}
      IN /\ missingFields # {} =>
              /\ result.missingInfo.present
              /\ result.missingInfo.value.requestBodyFields.present
              /\ Range(result.missingInfo.value.requestBodyFields.value)
                   = missingFields
              /\ Range(result.missingInfo.value.requiredParams)
                   = missingParams \cup missingFields
         /\ (missingFields = {} /\ missingParams = {}) =>
              ~result.missingInfo.present

C10_Witness ==
  \E i \in DOMAIN requests, j \in DOMAIN requests :
    /\ FallbackReturned(i) /\ FallbackReturned(j)
    /\ ReturnedEndpoint(requests[i]) = ReturnedEndpoint(requests[j])
    /\ Len(ReturnedEndpoint(requests[i]).requestBody.requiredFields) = 3
    /\ Cardinality({f \in RequiredFields(ReturnedEndpoint(requests[i])) :
                      Supplies(requests[i].query, f)}) = 1
    /\ requests[i].outcome.result.missingInfo.present
    /\ Len(requests[i].outcome.result.missingInfo.value.requiredParams) = 2
    /\ \A f \in RequiredFields(ReturnedEndpoint(requests[j])) :
         Supplies(requests[j].query, f)
    /\ ~requests[j].outcome.result.missingInfo.present

\* C11 (as claimed): every MatchResult matchQuery returns, on the semantic
\* path as well as on the fallback path, carries guidance exactly when it
\* carries missingInfo.
C11_GuidanceIffMissingInfo ==
  \A i \in DOMAIN requests :
    (Done(i) /\ requests[i].outcome.kind = "result") =>
      (requests[i].outcome.result.guidance.present
         <=> requests[i].outcome.result.missingInfo.present)

\* the types declared for a name by the parameters and by the request body
\* properties of an endpoint
DeclaredTypes(endpoint, name) ==
  {endpoint.parameters[p].type : p \in
     {p \in 1..Len(endpoint.parameters) : endpoint.parameters[p].name = name}}
  \cup (IF endpoint.requestBody.present
           /\ name \in DOMAIN endpoint.requestBody.properties
        THEN {endpoint.requestBody.properties[name]}
        ELSE {})

PrimitiveTypes == {"integer", "number", "boolean"}

\* C12 (as claimed): for every parameter or body field declared integer,
\* number or boolean, the value the fallback matcher places in params is a
\* number or boolean and never a string.
C12_TypedValues ==
  \A i \in Latest :
    FallbackReturned(i) =>
      \A k \in DOMAIN requests[i].outcome.result.params.value :
        (DeclaredTypes(ReturnedEndpoint(requests[i]), k) \cap PrimitiveTypes # {})
          => requests[i].outcome.result.params.value[k].kind # "string"

\* C13 (as claimed): the confidence of every result of the fallback matcher
\* lies in the interval [0, 1].
C13_ConfidenceInUnitInterval ==
  \A i \in Latest :
    FallbackReturned(i) =>
      /\ 0 <= requests[i].outcome.result.confidence.value.num
      /\ requests[i].outcome.result.confidence.value.num
           <= requests[i].outcome.result.confidence.value.den

\* the endpoints of a catalog that share path and description with e and
\* have the given method
Siblings(m, e, method) ==
  {j \in 1..Len(m.endpoints) :
     /\ m.endpoints[j].path = e.path
     /\ m.endpoints[j].description = e.description
     /\ m.endpoints[j].method = method}

\* C14: on the catalog with POST /users and GET /users the query
\* "list all users" selects GET /users; in general the returned endpoint has
\* the guessed method whenever an endpoint with the same path and
\* description has it.
C14_MethodDecides ==
  \A i \in Latest :
    FallbackReturned(i) =>
      /\ Siblings(requests[i].startManifest, ReturnedEndpoint(requests[i]),
                  MatchedMethod(ToLowerCase(requests[i].query))) # {}
           => requests[i].outcome.result.method
                = Some(MatchedMethod(ToLowerCase(requests[i].query)))
      /\ (requests[i].startManifest = Users /\ requests[i].query = "list all users")
           => /\ requests[i].outcome.result.endpoint = Some("/users")
              /\ requests[i].outcome.result.method = Some("GET")

\* POST /users comes first in the catalog and GET /users is returned
C14_Witness ==
  \E i \in DOMAIN requests :
    /\ FallbackReturned(i)
    /\ requests[i].startManifest = Users
    /\ requests[i].startManifest.endpoints[1].method = "POST"
    /\ requests[i].query = "list all users"
    /\ requests[i].outcome.result.method = Some("GET")

\* C15 (as claimed): on the catalog with GET /pets (optional integer limit)
\* and POST /pets (body properties name: string and age: integer, name
\* required) the query "create a pet named Max age=3" yields POST /pets with
\* params exactly {name: "Max", age: 3}, age a number, and no missingInfo.
C15_CreatePetScenario ==
  \A i \in Latest :
    (Done(i) /\ requests[i].startManifest = PetStore
       /\ requests[i].query = "create a pet named Max age=3") =>
      /\ FallbackReturned(i)
      /\ requests[i].outcome.result.endpoint = Some("/pets")
      /\ requests[i].outcome.result.method = Some("POST")
      /\ requests[i].outcome.result.params
           = Some([name |-> StrVal("Max"), age |-> NumVal(3)])
      /\ ~requests[i].outcome.result.missingInfo.present

\* the catalogs an update can install: a submitted one as generated, or as
\* returned by the enhancer
Installable == UNION {{m} \cup EnhancedManifests(m) : m \in ServerCatalogs}

\* C16: under every interleaving of queries and updates, two overlapping
\* updates included, each reader sees one whole catalog, the initial one or
\* the one a single update submitted and installed, never a mixture: the
\* manifest route, the endpoint and info routes, the matcher of new
\* queries, and every query from its start to its result.
C16_ReadersSeeWholeCatalog ==
  /\ ManifestRoute \in Installable
  /\ \E m \in Installable :
       /\ EndpointsRoute = m.endpoints
       /\ InfoRoute = [name |-> m.name, endpointCount |-> Len(m.endpoints)]
  /\ queryMatcher.manifest = manifest
  /\ \A i \in DOMAIN requests :
       /\ requests[i].matcher.manifest \in Installable
       /\ requests[i].matcher.manifest = requests[i].startManifest
       /\ (Done(i) /\ requests[i].outcome.kind = "result") =>
            requests[i].outcome.result.apiName = requests[i].startManifest.name
  /\ \/ \A u \in DOMAIN updates : updates[u].pc # "done"
     \/ \E u \in DOMAIN updates :
          /\ updates[u].pc = "done"
          /\ manifest = updates[u].newManifest
          /\ manifest \in {updates[u].spec.manifest}
                            \cup EnhancedManifests(updates[u].spec.manifest)

\* a query is pending on its start catalog while the second of two
\* overlapping updates has installed another catalog and the first is still
\* being enhanced
C16_Witness ==
  /\ Len(updates) = 2
  /\ updates[1].pc = "enhancing"
  /\ updates[2].pc = "done"
  /\ updates[1].spec.manifest # updates[2].spec.manifest
  /\ manifest = updates[2].spec.manifest
  /\ \E i \in DOMAIN requests :
       /\ requests[i].pc = "calling"
       /\ requests[i].replaced
       /\ requests[i].matcher.manifest # manifest

\* the catalog built by the last call of generateFromSwagger
Built == generated.outcome.result

\* C17 (as claimed): in every catalog built by ManifestGenerator, for every
\* endpoint that has a requestBody, every name in requestBody.requiredFields
\* is a key of requestBody.properties.
C17_RequiredFieldsAreProperties ==
  generated.call = "generateFromSwagger" =>
    \A i \in DOMAIN Built.endpoints :
      Built.endpoints[i].requestBody.present =>
        Range(Built.endpoints[i].requestBody.requiredFields)
          \subseteq DOMAIN Built.endpoints[i].requestBody.properties

SemanticTypes == {"integer", "number", "boolean", "string", "array"}

OccursBefore(name, a, b) ==
  \E i \in 1..Len(name), j \in 1..Len(name) :
    StartsWithAt(name, a, i) /\ StartsWithAt(name, b, j) /\ j >= i + Len(a)

\* the description of a hint mentions array or list, in any case
Mentions(prop) ==
  /\ prop.present
  /\ prop.value.description.present
  /\ \E w \in {"array", "list"} :
       Includes(ToLowerCase(prop.value.description.value), w)

\* The type of the first matching rule, rules (5) to (7) read as the rules
\* of the same numbers in the specification of the type inference helper:
\* date without update and time, timestamp, datetime, created..at and
\* updated..at, email.
RuleType(name, prop) ==
  IF EndsWith(name, "_id") \/ name = "id" \/ StartsWithAt(name, "id_", 1)
  THEN "integer"
  ELSE IF \E w \in {"count", "quantity", "number", "amount"} : Includes(name, w)
  THEN "integer"
  ELSE IF \E w \in {"price", "cost", "rate", "fee"} : Includes(name, w)
  THEN "number"
  ELSE IF \/ \E w \in {"is_", "has_", "can_", "should_"} : StartsWithAt(name, w, 1)
          \/ \E w \in {"enabled", "active"} : Includes(name, w)
  THEN "boolean"
  ELSE IF \/ Includes(name, "date") /\ ~Includes(name, "update")
               /\ ~Includes(name, "time")
          \/ Includes(name, "timestamp") \/ Includes(name, "datetime")
          \/ OccursBefore(name, "created", "at")
          \/ OccursBefore(name, "updated", "at")
          \/ Includes(name, "email")
  THEN "string"
  ELSE IF /\ EndsWith(name, "s") \/ Includes(name, "list") \/ Includes(name, "array")
          /\ Mentions(prop)
  THEN "array"
  ELSE "string"

\* the type the source specification gives on a parameter or property
GivenType(hint) ==
  IF hint.schemaType.present THEN hint.schemaType ELSE hint.type

IsOperation(p) == p.method \in {"get", "post", "put", "delete", "patch"}

\* the operations of the specification given to the last call, in the order
\* of the endpoints built from them
Operations ==
  [i \in DOMAIN SelectSeq(generated.apiSpec.paths, IsOperation) |->
     SelectSeq(generated.apiSpec.paths, IsOperation)[i].operation]

\* C19 (as claimed): inference returns the type of the first matching rule
\* in the fixed order (1) to (9), and a parameter or body property to which
\* the source specification gives a type keeps that type: inference is used
\* only when no type is given.
C19_FirstMatchingRule ==
  /\ (generated.call = "inferTypeFromName" /\ generated.outcome.kind = "result")
       => generated.outcome.result
            = RuleType(ToLowerCase(generated.fieldName), generated.prop)
  /\ generated.call = "generateFromSwagger" =>
       \A i \in DOMAIN Built.endpoints :
         /\ Operations[i].parameters.present =>
              \A k \in DOMAIN Operations[i].parameters.value :
                GivenType(Operations[i].parameters.value[k].hint).present =>
                  Built.endpoints[i].parameters[k].type
                    = GivenType(Operations[i].parameters.value[k].hint).value
         /\ Built.endpoints[i].requestBody.present =>
              \A n \in DOMAIN Built.endpoints[i].requestBody.properties :
                LET given == GivenType(ContentSchema(Operations[i].requestBody.value)
                                         .value.properties.value[n])
                IN given.present =>
                     Built.endpoints[i].requestBody.properties[n] = given.value

\* The score of the claim for an endpoint: 5 for the guessed method, 3 for
\* every path segment that is no placeholder and occurs in the lowercased
\* query, 1 for every description word of more than 3 characters that
\* occurs in it; segments and words are compared in lower case.
ClaimedScore(endpoint, queryLower) ==
  LET Segments(parts) ==
        {k \in DOMAIN parts :
           /\ parts[k] # ""
           /\ SubSeq(parts[k], 1, 1) # "{"
           /\ Includes(queryLower, ToLowerCase(parts[k]))}
      Words(words) ==
        {k \in DOMAIN words :
           Len(words[k]) > 3 /\ Includes(queryLower, words[k])}
  IN (IF endpoint.method = MatchedMethod(queryLower) THEN 5 ELSE 0)
       + 3 * Cardinality(Segments(Split(endpoint.path, "/")))
       + Cardinality(Words(SplitWs(ToLowerCase(endpoint.description))))

\* the endpoints of maximal score in the catalog of request i
TopScored(i) ==
  LET Top(endpoints, queryLower) ==
        {j \in DOMAIN endpoints :
           \A k \in DOMAIN endpoints :
             ClaimedScore(endpoints[k], queryLower)
               <= ClaimedScore(endpoints[j], queryLower)}
  IN Top(requests[i].startManifest.endpoints, ToLowerCase(requests[i].query))

\* C20: the fallback matcher returns the first endpoint, in catalog order,
\* among those of maximal score; when every endpoint scores zero that is
\* the first entry of the catalog; the confidence is the score divided by 10.
C20_FirstOfMaximalScore ==
  \A i \in Latest :
    FallbackReturned(i) =>
      LET Chosen(first, score) ==
            /\ requests[i].outcome.result.endpoint = Some(first.path)
            /\ requests[i].outcome.result.method = Some(first.method)
            /\ requests[i].outcome.result.endpointDescription
                 = OptionalString(first.description)
            /\ requests[i].outcome.result.confidence
                 = Some([num |-> score, den |-> 10])
            /\ score = 0 => first = requests[i].startManifest.endpoints[1]
          First(j) ==
            Chosen(requests[i].startManifest.endpoints[j],
                   ClaimedScore(requests[i].startManifest.endpoints[j],
                                ToLowerCase(requests[i].query)))
      IN First(Min(TopScored(i)))

\* one call ends in a tie of two endpoints that are not the first of the
\* catalog, another call scores every endpoint zero
C20_Witness ==
  \E i \in DOMAIN requests, j \in DOMAIN requests :
    /\ FallbackReturned(i) /\ FallbackReturned(j)
    /\ Cardinality(TopScored(i)) = 2
    /\ 1 \notin TopScored(i)
    /\ requests[i].outcome.result.confidence.value.num > 0
    /\ Cardinality(TopScored(j)) = Len(requests[j].startManifest.endpoints)
    /\ Len(requests[j].startManifest.endpoints) > 1
    /\ requests[j].outcome.result.confidence.value.num = 0

\* the method the guess is said to produce: that of the first keyword set,
\* in the order GET, POST, PUT, DELETE, PATCH, with a keyword in the query
KeywordSets ==
  << <<"GET", {"get", "fetch", "retrieve", "list", "show", "find", "search"}>>,
     <<"POST", {"create", "add", "post", "new", "insert"}>>,
     <<"PUT", {"update", "modify", "edit", "change", "replace"}>>,
     <<"DELETE", {"delete", "remove", "destroy"}>>,
     <<"PATCH", {"patch", "partial update"}>> >>

SetOccurs(n, query) == \E k \in KeywordSets[n][2] : Includes(ToLowerCase(query), k)

GuessedMethod(query) ==
  IF \A n \in DOMAIN KeywordSets : ~SetOccurs(n, query) THEN "GET"
  ELSE KeywordSets[CHOOSE n \in DOMAIN KeywordSets :
                     /\ SetOccurs(n, query)
                     /\ \A k \in 1..(n - 1) : ~SetOccurs(k, query)][1]

\* C21: the guessed method is that of the first keyword set, in the order
\* GET, POST, PUT, DELETE, PATCH, with a keyword occurring in the lowercased
\* query, and GET when no set has one.  On the catalog that answers to every
\* method on one path the returned method is the guessed one.
C21_FirstKeywordSet ==
  \A i \in DOMAIN requests :
    (FallbackReturned(i) /\ requests[i].startManifest.name = "Items")
      => requests[i].outcome.result.method
           = Some(GuessedMethod(requests[i].query))

\* a query with keywords of the POST and GET sets, the POST keyword first
C21_Witness ==
  \E i \in DOMAIN requests :
    /\ FallbackReturned(i)
    /\ requests[i].startManifest.name = "Items"
    /\ requests[i].query = "create and list items"
    /\ SetOccurs(1, requests[i].query) /\ SetOccurs(2, requests[i].query)
    /\ requests[i].outcome.result.method = Some("GET")

\* the values queries give to parameters
SpokenValues == {"7", "tomorrow", "2024-01-15"}

\* name occurs in the query as 'name value' or 'name: value'
OccursWithValue(query, name) ==
  \E v \in SpokenValues :
    \/ Includes(query, name \o " " \o v)
    \/ Includes(query, name \o ": " \o v)

ParamKeys(r) == DOMAIN r.outcome.result.params.value

\* C22 (as claimed): in every fallback result each declared parameter of the
\* returned endpoint that occurs in the query as 'name value' or
\* 'name: value' is a key of params, also when every endpoint scores zero
\* and the first endpoint of the catalog is returned.
C22_NamedParametersExtracted ==
  \A i \in DOMAIN requests :
    FallbackReturned(i) =>
      \A p \in Range(ReturnedEndpoint(requests[i]).parameters) :
        OccursWithValue(requests[i].query, p.name)
          => p.name \in ParamKeys(requests[i])

\* the YYYY-MM-DD literals queries contain
DateLiterals == {"2024-01-15"}

\* C23 (as claimed): for a declared parameter whose name contains 'date', a
\* query containing a YYYY-MM-DD literal gives params that literal for the
\* parameter, whatever the name-based pattern matched and whatever the
\* declared type of the parameter.
C23_DateLiteralWins ==
  \A i \in DOMAIN requests :
    FallbackReturned(i) =>
      \A p \in Range(ReturnedEndpoint(requests[i]).parameters) :
        \A d \in DateLiterals :
          (Includes(p.name, "date") /\ Includes(requests[i].query, d))
            => /\ p.name \in ParamKeys(requests[i])
               /\ requests[i].outcome.result.params.value[p.name] = StrVal(d)

\* What the queries with body fields contain: the quoted key="value"
\* pairs (the last one of a key), the unquoted key=value pairs of other keys
\* (the first one of a key), and the fields the natural-language patterns
\* find.
BodyScenarios ==
  { [query |-> "create pet name=\"Max\" name=Bob age=3",
     quoted |-> [name |-> "Max"], unquoted |-> [age |-> "3"],
     spoken |-> <<>>],
    [query |-> "create pet name: Rex age=3",
     quoted |-> <<>>, unquoted |-> [age |-> "3"],
     spoken |-> [customer_name |-> "Rex"]],
    [query |-> "create pet name: Rex, phone 555",
     quoted |-> <<>>, unquoted |-> <<>>,
     spoken |-> [customer_name |-> "Rex", customer_phone |-> "555"]],
    [query |-> "add notes='a b' notes='c d' garage=x garage=y",
     quoted |-> [notes |-> "c d"], unquoted |-> [garage |-> "x"],
     spoken |-> <<>>] }

BodyResult(i) ==
  /\ FallbackReturned(i)
  /\ requests[i].outcome.result.method.value \in {"POST", "PUT", "PATCH"}

\* C24: body fields come from three sources in strict precedence: quoted
\* key="value" pairs; unquoted key=value pairs only for keys no quoted pair
\* captured; the natural-language patterns only when the two structured
\* passes captured no key at all.
C24_BodyFieldPrecedence ==
  \A i \in DOMAIN requests : \A s \in BodyScenarios :
    (BodyResult(i) /\ requests[i].query = s.query) =>
      LET params == requests[i].outcome.result.params.value
          structured == (DOMAIN s.quoted) \cup (DOMAIN s.unquoted)
      IN /\ \A k \in DOMAIN s.quoted :
              k \in DOMAIN params /\ params[k] = StrVal(s.quoted[k])
         /\ \A k \in DOMAIN s.unquoted :
              k \in DOMAIN params /\ params[k] = StrVal(s.unquoted[k])
         /\ structured # {} => DOMAIN params = structured
         /\ structured = {} =>
              /\ DOMAIN params = DOMAIN s.spoken
              /\ \A k \in DOMAIN s.spoken : params[k] = StrVal(s.spoken[k])

\* a key given quoted and unquoted, with another key given unquoted only
C24_Witness ==
  \E i \in DOMAIN requests :
    /\ BodyResult(i)
    /\ requests[i].query = "create pet name=\"Max\" name=Bob age=3"
    /\ requests[i].outcome.result.endpoint = Some("/pets")
    /\ requests[i].outcome.result.params.value
         = [name |-> StrVal("Max"), age |-> StrVal("3")]

\* C25 (as claimed): whenever a fallback result has missingInfo,
\* requiredParams is the union of the missing required parameters and the
\* missing required body fields with each name listed exactly once,
\* suggestions has exactly one entry per entry of requiredParams, and
\* exampleQuery is a non-empty string.
C25_MissingInfoShape ==
  \A i \in DOMAIN requests :
    (FallbackReturned(i) /\ requests[i].outcome.result.missingInfo.present) =>
      LET result == requests[i].outcome.result
          endpoint == ReturnedEndpoint(requests[i])
          missingParams == MissingParameters(endpoint, DOMAIN result.params.value)
          missingFields == {f \in RequiredFields(endpoint) :
                              ~Supplies(requests[i].query, f)}
          listed == result.missingInfo.value.requiredParams
      IN /\ Range(listed) = missingParams \cup missingFields
         /\ \A m \in DOMAIN listed, n \in DOMAIN listed :
              listed[m] = listed[n] => m = n
         /\ Len(result.missingInfo.value.suggestions) = Len(listed)
         /\ result.missingInfo.value.exampleQuery # ""

Semantic(i) ==
  Done(i) /\ requests[i].cause = "semantic" /\ requests[i].outcome.kind = "result"

\* the declared parameters of the endpoint the result's (endpoint, method)
\* pair resolves to in the catalog, none when the pair is not in it
ResolvedParameters(r) ==
  LET hits == {j \in DOMAIN r.startManifest.endpoints :
                 /\ r.outcome.result.endpoint = Some(r.startManifest.endpoints[j].path)
                 /\ r.outcome.result.method = Some(r.startManifest.endpoints[j].method)}
  IN IF hits = {} THEN <<>>
     ELSE r.startManifest.endpoints[CHOOSE j \in hits : \A k \in hits : j <= k].parameters

GivenKeys(r) ==
  IF r.outcome.result.params.present THEN DOMAIN r.outcome.result.params.value
  ELSE {}

\* C26: enrichment builds parameterDetails with exactly one entry per
\* declared parameter of the endpoint resolved by (endpoint, method), in
\* declaration order; source is 'extracted' if the name is a key of params,
\* else 'missing' if required, else 'optional'; location is the explicit
\* one, or else path if {name} occurs in the path, else body for POST, PUT
\* and PATCH, else query.  When the pair is not in the catalog the query
\* still succeeds, with empty parameterDetails and no endpointDescription.
C26_ParameterDetails ==
  \A i \in DOMAIN requests :
    (Done(i) /\ requests[i].modelCalls = 1 /\ ~requests[i].response.rejects) =>
      LET r == requests[i]
          declared == ResolvedParameters(r)
          details == r.outcome.result.parameterDetails
          inCatalog == \E j \in DOMAIN r.startManifest.endpoints :
                         /\ r.outcome.result.endpoint = Some(r.startManifest.endpoints[j].path)
                         /\ r.outcome.result.method = Some(r.startManifest.endpoints[j].method)
      IN /\ Semantic(i)
         /\ Len(details) = Len(declared)
         /\ \A k \in DOMAIN declared :
              /\ details[k].name = declared[k].name
              /\ details[k].source =
                   IF declared[k].name \in GivenKeys(r) THEN "extracted"
                   ELSE IF declared[k].required THEN "missing" ELSE "optional"
              /\ details[k].location =
                   IF declared[k].location # "" THEN declared[k].location
                   ELSE IF Includes(r.outcome.result.endpoint.value,
                                    "{" \o declared[k].name \o "}") THEN "path"
                   ELSE IF r.outcome.result.method.value \in {"POST", "PUT", "PATCH"}
                   THEN "body"
                   ELSE "query"
         /\ ~inCatalog =>
              /\ details = <<>>
              /\ ~r.outcome.result.endpointDescription.present

\* an answer naming POST /tasks/{task_id} with title given: title is
\* extracted and goes to the body, task_id is missing and goes to the path,
\* note is optional
C26_Witness ==
  /\ requests # <<>>
  /\ Semantic(1)
  /\ requests[1].startManifest.name = "Tasks"
  /\ requests[1].outcome.result.method = Some("POST")
  /\ requests[1].outcome.result.endpoint = Some("/tasks/{task_id}")
  /\ Len(requests[1].outcome.result.parameterDetails) = 3
  /\ requests[1].outcome.result.parameterDetails[1].source = "extracted"
  /\ requests[1].outcome.result.parameterDetails[1].location = "body"
  /\ requests[1].outcome.result.parameterDetails[2].source = "missing"
  /\ requests[1].outcome.result.parameterDetails[2].location = "path"
  /\ requests[1].outcome.result.parameterDetails[3].source = "optional"

\* C27: in every state in which a request handler can start or resume,
\* after any sequence of update-spec requests, what the server serves on the
\* manifest route, on GET /api/endpoints and on GET /api/info is the
\* catalog held by the server's current QueryMatcher; a query that starts
\* is matched against the catalog served at that moment.
C27_ServedCatalogIsMatched ==
  /\ ManifestRoute = ManifestOf(queryMatcher)
  /\ EndpointsRoute = ManifestOf(queryMatcher).endpoints
  /\ InfoRoute = [name |-> ManifestOf(queryMatcher).name,
                  endpointCount |-> Len(ManifestOf(queryMatcher).endpoints)]
  /\ \A i \in DOMAIN requests :
       (requests[i].pc = "calling" /\ ~requests[i].replaced)
         => ManifestOf(requests[i].matcher) = ManifestRoute

\* two updates have installed different catalogs, the second a non-empty one
C27_Witness ==
  /\ Len(updates) = 2
  /\ updates[1].pc = "done" /\ updates[2].pc = "done"
  /\ updates[1].spec.manifest # updates[2].spec.manifest
  /\ ManifestRoute \in {updates[1].spec.manifest, updates[2].spec.manifest}
  /\ ManifestOf(queryMatcher) = ManifestRoute
  /\ Len(EndpointsRoute) > 0

\* update u, not rejected before this step, is rejected by it
Rejected(u) ==
  /\ updates'[u].pc = "rejected"
  /\ u \notin DOMAIN updates \/ updates[u].pc # "rejected"

\* the enhancement of update u fails in this step
EnhancementFailed(u) ==
  /\ u \in DOMAIN updates
  /\ updates[u].pc = "enhancing"
  /\ updates'[u].enhancement = "failed"

\* C28: a POST /api/update-spec that is rejected (specContent missing, or a
\* specification that fails to parse or validate) leaves the manifest and
\* the QueryMatcher unchanged; a failure of the optional enhancement does
\* not reject the update: the new manifest, not enhanced, is installed.
C28_RejectedUpdateKeepsCatalog ==
  [][\A u \in DOMAIN updates' :
       /\ Rejected(u) =>
            /\ manifest' = manifest
            /\ queryMatcher' = queryMatcher
            /\ updates'[u].enhancement = "none"
       /\ EnhancementFailed(u) =>
            /\ updates'[u].pc = "done"
            /\ manifest' = updates[u].spec.manifest
            /\ ManifestOf(queryMatcher') = updates[u].spec.manifest]_vars

\* one update was rejected and the catalog is still the one served before;
\* the enhancement of another failed and its catalog, with a field the
\* enhancer selects, is installed as generated
C28_Witness ==
  /\ Len(updates) = 2
  /\ updates[1].pc = "rejected"
  /\ updates[2].pc = "done"
  /\ updates[2].enhancement = "failed"
  /\ \E e \in Range(updates[2].spec.manifest.endpoints) :
       findMissingTypes(e) # {}
  /\ ManifestRoute = updates[2].spec.manifest
  /\ ManifestOf(queryMatcher) = updates[2].spec.manifest

\* C30 (as claimed): enhancement changes the type only of parameters and
\* request-body properties whose type was missing or 'string', and only to
\* one of string, integer, number, boolean, array, object; every field with
\* another explicit type keeps it, and paths, methods, required flags and
\* the number and order of endpoints are unchanged.
C30_EnhancementChangesSelectedTypesOnly ==
  \A u \in DOMAIN updates :
    (updates[u].pc = "done" /\ updates[u].enhancement # "none") =>
      LET old == updates[u].spec.manifest.endpoints
          new == updates[u].newManifest.endpoints
      IN /\ Len(new) = Len(old)
         /\ \A i \in DOMAIN old :
              /\ new[i].path = old[i].path
              /\ new[i].method = old[i].method
              /\ Len(new[i].parameters) = Len(old[i].parameters)
              /\ new[i].requestBody.requiredFields = old[i].requestBody.requiredFields
              /\ DOMAIN new[i].requestBody.properties
                   = DOMAIN old[i].requestBody.properties
              /\ \A k \in DOMAIN old[i].parameters :
                   /\ new[i].parameters[k].name = old[i].parameters[k].name
                   /\ new[i].parameters[k].required = old[i].parameters[k].required
                   /\ new[i].parameters[k].type # old[i].parameters[k].type =>
                        /\ old[i].parameters[k].type \in {"", "string"}
                        /\ new[i].parameters[k].type \in
                             {"string", "integer", "number", "boolean",
                              "array", "object"}
              /\ \A name \in DOMAIN old[i].requestBody.properties :
                   new[i].requestBody.properties[name]
                       # old[i].requestBody.properties[name] =>
                     /\ old[i].requestBody.properties[name] \in {"", "string"}
                     /\ new[i].requestBody.properties[name] \in
                          {"string", "integer", "number", "boolean",
                           "array", "object"}

\* C29 (as claimed): replacing the catalog through update-spec changes only
\* the catalog: a server whose QueryMatcher had a semantic client and a
\* configured model name still has both after the update.
C29_UpdateKeepsStrategy ==
  [][/\ queryMatcher'.openai = queryMatcher.openai
     /\ queryMatcher'.modelName = queryMatcher.modelName]_vars

====
